---- MODULE Spec2Model ----
(***************************************************************************)
(* The CSV import and report management commands of the gas agency         *)
(* back office, as a state machine over the relational store.              *)
(*                                                                         *)
(* A table of the store is a sequence of rows in insertion order; the      *)
(* auto-generated id of a row is its position in the sequence.  A          *)
(* dataframe is the sequence of the rows of the CSV after                  *)
(* pd.read_csv(..., dtype=str).fillna(''): every cell is a string and a    *)
(* missing cell is the empty string.  Cells the code parses character by   *)
(* character (LPGId, NoOfCylinder, NoOfDpr, AreaCodeDesc) are sequences    *)
(* of one-character strings; the other cells are atoms.  Only the columns  *)
(* a command reads are part of its rows.                                   *)
(***************************************************************************)
EXTENDS Integers, Sequences, FiniteSets, TLC

VARIABLES store, last, runs

vars == <<store, last, runs>>

----------------------------------------------------------------------------
(* Bounds of the model *)

\* longest CSV a command is run on
MaxRows == 2
\* number of command invocations in one behaviour
MaxRuns == 2
\* chunk size of bulk_create, scaled down from batch_size=2000 so that an
\* insert of MaxRows rows is split into more than one chunk
BatchSize == 1

----------------------------------------------------------------------------
(* Python values *)

\* None in a string-valued field (a lookup that did not resolve, a NULL)
None == "<None>"

\* a nullable integer: <<>> is None, <<n>> is the integer n
NoInt == <<>>

\* the outcome of an expression that may raise: a value, or ValueError
Value(v) == [raises |-> FALSE, value |-> v]
ValueError == [raises |-> TRUE, value |-> NoInt]

Range(s) == {s[i] : i \in DOMAIN s}

\* the subsequence of the elements of s at the indices in keep, from i on
RECURSIVE SelectIdx(_, _, _)
SelectIdx(s, keep, i) ==
    IF i > Len(s) THEN <<>>
    ELSE IF i \in keep THEN <<s[i]>> \o SelectIdx(s, keep, i + 1)
    ELSE SelectIdx(s, keep, i + 1)

DigitChars == {"0", "1", "2", "3", "4", "5", "6", "7", "8", "9"}

DigitVal(c) ==
    CASE c = "0" -> 0 [] c = "1" -> 1 [] c = "2" -> 2 [] c = "3" -> 3
      [] c = "4" -> 4 [] c = "5" -> 5 [] c = "6" -> 6 [] c = "7" -> 7
      [] c = "8" -> 8 [] c = "9" -> 9

\* U+00B2 SUPERSCRIPT TWO, one character: a digit for str.isdigit() that is
\* not a decimal character, so int() and float() reject it
SuperscriptTwo == "sup2"

\* str.isdigit(): non-empty and every character a digit
IsDigit(s) ==
    Len(s) > 0 /\ \A i \in DOMAIN s : s[i] \in DigitChars \cup {SuperscriptTwo}

\* str.isdecimal(): non-empty and every character one of 0..9
IsDecimal(s) == Len(s) > 0 /\ \A i \in DOMAIN s : s[i] \in DigitChars

\* the integer a digit string denotes (0 for the empty string)
RECURSIVE DigitsToNat(_)
DigitsToNat(s) ==
    IF Len(s) = 0 THEN 0
    ELSE 10 * DigitsToNat(SubSeq(s, 1, Len(s) - 1)) + DigitVal(s[Len(s)])

\* index of the first occurrence of ch in s, 0 when there is none
FirstIndex(s, ch) ==
    IF \E i \in DOMAIN s : s[i] = ch
    THEN CHOOSE i \in DOMAIN s : s[i] = ch /\ \A j \in 1..(i - 1) : s[j] # ch
    ELSE 0

\* s.replace(ch, '', 1)
ReplaceFirst(s, ch) ==
    LET k == FirstIndex(s, ch)
    IN IF k = 0 THEN s ELSE SubSeq(s, 1, k - 1) \o SubSeq(s, k + 1, Len(s))

\* float(s) succeeds: decimal characters with at most one decimal point, one
\* digit at least (the cells float() is applied to hold no sign, exponent or
\* blank)
FloatParses(s) == IsDecimal(ReplaceFirst(s, "."))

\* int(s) succeeds (the cells int() is applied to hold no sign or blank)
IntParses(s) == IsDecimal(s)

\* An integer of Python is the sequence of its decimal digits without a
\* leading zero, so that it is not bound to the width of the integers of
\* the model checker.

\* str(int(s)) for a decimal string s
RECURSIVE Canon(_)
Canon(d) ==
    IF Len(d) = 0 THEN <<"0">>
    ELSE IF Len(d) > 1 /\ Head(d) = "0" THEN Canon(Tail(d))
    ELSE d

DigitChar(n) ==
    CASE n = 0 -> "0" [] n = 1 -> "1" [] n = 2 -> "2" [] n = 3 -> "3"
      [] n = 4 -> "4" [] n = 5 -> "5" [] n = 6 -> "6" [] n = 7 -> "7"
      [] n = 8 -> "8" [] n = 9 -> "9"

\* the w decimal digits of n, zero filled
RECURSIVE NatToDigits(_, _)
NatToDigits(n, w) ==
    IF w = 0 THEN <<>>
    ELSE NatToDigits(n \div 10, w - 1) \o <<DigitChar(n % 10)>>

\* a < b for two integers
IntLess(a, b) ==
    \/ Len(a) < Len(b)
    \/ /\ Len(a) = Len(b)
       /\ \E i \in DOMAIN a :
            /\ DigitVal(a[i]) < DigitVal(b[i])
            /\ \A j \in 1..(i - 1) : a[j] = b[j]

\* d + 1 for a digit string d
RECURSIVE Inc(_)
Inc(d) ==
    IF Len(d) = 0 THEN <<"1">>
    ELSE IF d[Len(d)] = "9" THEN Inc(SubSeq(d, 1, Len(d) - 1)) \o <<"0">>
    ELSE SubSeq(d, 1, Len(d) - 1) \o <<DigitChar(DigitVal(d[Len(d)]) + 1)>>

\* 2^53 .. 2^57: from 2^(52+k) on neighbouring doubles are 2^k apart
TwoTo53 == <<"9","0","0","7","1","9","9","2","5","4","7","4","0","9","9","2">>
TwoTo54 == <<"1","8","0","1","4","3","9","8","5","0","9","4","8","1","9","8","4">>
TwoTo55 == <<"3","6","0","2","8","7","9","7","0","1","8","9","6","3","9","6","8">>
TwoTo56 == <<"7","2","0","5","7","5","9","4","0","3","7","9","2","7","9","3","6">>

\* the distance of the doubles next to the integer n, for n below 2^57
\* (an integer of at most 17 digits is below 2^57)
Spacing(n) ==
    IF IntLess(n, TwoTo53) THEN 1
    ELSE IF IntLess(n, TwoTo54) THEN 2
    ELSE IF IntLess(n, TwoTo55) THEN 4
    ELSE IF IntLess(n, TwoTo56) THEN 8
    ELSE 16

\* int(float(n)) for an integer n of at most 17 digits: n rounded to the
\* nearest double, to the one with the even mantissa when two are as near.
\* The spacing divides 10^4 and twice the spacing divides 10^5, so the
\* last five digits of n decide.
FloatRound(n) ==
    LET sp == Spacing(n)
        cut == IF Len(n) > 5 THEN Len(n) - 5 ELSE 0
        high == SubSeq(n, 1, cut)
        low == DigitsToNat(SubSeq(n, cut + 1, Len(n)))
        r == low % sp
        down == low - r
        even == down % (2 * sp) = 0
        to == IF 2 * r < sp \/ (2 * r = sp /\ even) THEN down ELSE down + sp
    IN IF sp = 1 THEN n
       ELSE IF to = 100000 THEN Inc(high) \o NatToDigits(0, 5)
       ELSE high \o NatToDigits(to, 5)

\* int(float(s)) for a string float() accepts.  Without a point the string
\* is an integer and float() rounds it; a cell with a point is short in the
\* model, float() holds its value and int() cuts the fraction off.
IntOfFloat(s) ==
    LET k == FirstIndex(s, ".")
    IN IF k = 0 THEN FloatRound(Canon(s)) ELSE Canon(SubSeq(s, 1, k - 1))

----------------------------------------------------------------------------
(* The store *)

\* the lookup registries populate_consumers reads, by name
Categories == {"General"}
ConsumerTypes == {"Domestic", "Commercial"}
ConnectionTypes == {"SV"}
Products == {"LPG Cylinder"}
Units == {"kg"}
\* the area codes of the routes
RouteCodes == {<<"A">>, <<"B">>}

EmptyStore ==
    [consumers |-> <<>>, addresses |-> <<>>, contacts |-> <<>>,
     variants |-> <<>>, connections |-> <<>>, assignments |-> <<>>,
     categories |-> Categories, consumer_types |-> ConsumerTypes,
     connection_types |-> ConnectionTypes, products |-> Products,
     units |-> Units, routes |-> RouteCodes]

\* dict.get(name) on a registry {x.name: x}
Get(registry, name) == IF name \in registry THEN name ELSE None

\* id of the consumer with this number, 0 when there is none
ConsumerId(consumers, number) ==
    IF \E i \in DOMAIN consumers : consumers[i].consumer_number = number
    THEN CHOOSE i \in DOMAIN consumers : consumers[i].consumer_number = number
    ELSE 0

\* id of the variant with this product code, 0 when there is none
VariantId(variants, code) ==
    IF \E i \in DOMAIN variants : variants[i].product_code = code
    THEN CHOOSE i \in DOMAIN variants : variants[i].product_code = code
    ELSE 0

----------------------------------------------------------------------------
(* Constraints of the tables, checked by the database on insert *)

\* Consumer: consumer_number unique, lpg_id unique when not NULL, category
\* and consumer_type NOT NULL
ConsumerInsertOk(table, c) ==
    /\ \A i \in DOMAIN table : table[i].consumer_number # c.consumer_number
    /\ c.lpg_id # NoInt => \A i \in DOMAIN table : table[i].lpg_id # c.lpg_id
    /\ c.category # None
    /\ c.consumer_type # None

\* ProductVariant: product_code unique
VariantInsertOk(table, v) ==
    \A i \in DOMAIN table : table[i].product_code # v.product_code

\* ConnectionDetails: sv_number unique
ConnectionInsertOk(table, c) ==
    \A i \in DOMAIN table : table[i].sv_number # c.sv_number

\* ConsumerRouteAssignment: the consumer is the primary key
AssignmentInsertOk(table, a) ==
    \A i \in DOMAIN table : table[i].consumer # a.consumer

\* the constraints of the table of a model; Address and Contact carry none
\* an import can violate
InsertOk(model, table, obj) ==
    CASE model = "Consumer" -> ConsumerInsertOk(table, obj)
      [] model = "ProductVariant" -> VariantInsertOk(table, obj)
      [] model = "ConnectionDetails" -> ConnectionInsertOk(table, obj)
      [] model = "ConsumerRouteAssignment" -> AssignmentInsertOk(table, obj)
      [] OTHER -> TRUE

\* the rows of one INSERT statement, each checked against the table and the
\* rows of the statement before it
RECURSIVE InsertRows(_, _, _)
InsertRows(model, table, objs) ==
    IF Len(objs) = 0 THEN [ok |-> TRUE, table |-> table]
    ELSE IF InsertOk(model, table, Head(objs))
    THEN InsertRows(model, Append(table, Head(objs)), Tail(objs))
    ELSE [ok |-> FALSE, table |-> table]

\* one INSERT statement: it inserts all rows or none
InsertAll(model, table, objs) ==
    IF InsertRows(model, table, objs).ok THEN InsertRows(model, table, objs)
    ELSE [ok |-> FALSE, table |-> table]

\* QuerySet.bulk_create(objs, batch_size): one INSERT per chunk of batch_size
\* objects; a failing chunk raises and leaves the chunks before it written.
\* writes counts the chunks written.
RECURSIVE BulkCreate(_, _, _, _)
BulkCreate(model, table, objs, size) ==
    IF Len(objs) = 0 THEN [ok |-> TRUE, table |-> table, writes |-> 0]
    ELSE LET n == IF Len(objs) < size THEN Len(objs) ELSE size
             chunk == InsertAll(model, table, SubSeq(objs, 1, n))
         IN IF ~chunk.ok THEN [ok |-> FALSE, table |-> table, writes |-> 0]
            ELSE LET rest == BulkCreate(model, chunk.table,
                                        SubSeq(objs, n + 1, Len(objs)), size)
                 IN [ok |-> rest.ok, table |-> rest.table,
                     writes |-> rest.writes + 1]

\* the log entries of a bulk_create: one per chunk written
RECURSIVE Times(_, _)
Times(n, entry) == IF n = 0 THEN <<>> ELSE <<entry>> \o Times(n - 1, entry)

----------------------------------------------------------------------------
(* populate_consumers: the rows of its CSV *)

ConsumerNumbers == {"c1", "c2"}
SvNumbers == {"s1", "s2"}
ProdCodes == {"", "p1"}

\* the cells of a row besides its three natural keys: a plain row, a row
\* that differs from it in every cell, and a row that names a category no
\* registry holds and whose numeric cells are blank
PlainCells ==
    [Category |-> "General", ConsumerTypeIdDesc |-> "Domestic",
     InDocTypeIdDesc |-> "SV", LPGId |-> <<>>,
     BlueBookNumber |-> <<"1", "2">>,
     NoOfCylinder |-> <<"1", "4", ".", "2">>, NoOfDpr |-> <<"1">>,
     Address |-> "a1", MobileNumber |-> "m1", KYCDone |-> "KYC Done"]

OtherCells ==
    [Category |-> "General", ConsumerTypeIdDesc |-> "Commercial",
     InDocTypeIdDesc |-> "SV", LPGId |-> <<"7", ".", "5">>,
     BlueBookNumber |-> <<"1", "2", ".", "5">>,
     NoOfCylinder |-> <<"1", "9">>, NoOfDpr |-> <<"2">>,
     Address |-> "a2", MobileNumber |-> "m2", KYCDone |-> ""]

BadCells ==
    [Category |-> "Unknown", ConsumerTypeIdDesc |-> "Domestic",
     InDocTypeIdDesc |-> "SV", LPGId |-> <<"x">>,
     BlueBookNumber |-> <<>>,
     NoOfCylinder |-> <<>>, NoOfDpr |-> <<>>,
     Address |-> "a1", MobileNumber |-> "m1", KYCDone |-> "Done"]

Payloads == {PlainCells, OtherCells, BadCells}

ConsumerRow(c, s, p, cells) ==
    [Category |-> cells.Category,
     ConsumerTypeIdDesc |-> cells.ConsumerTypeIdDesc,
     InDocTypeIdDesc |-> cells.InDocTypeIdDesc, LPGId |-> cells.LPGId,
     BlueBookNumber |-> cells.BlueBookNumber,
     NoOfCylinder |-> cells.NoOfCylinder, NoOfDpr |-> cells.NoOfDpr,
     Address |-> cells.Address, MobileNumber |-> cells.MobileNumber,
     KYCDone |-> cells.KYCDone,
     ConsumerNumber |-> c, SvNumber |-> s, ProdCode |-> p]

ConsumerRows ==
    {ConsumerRow(c, s, p, cells) :
        c \in ConsumerNumbers, s \in SvNumbers, p \in ProdCodes,
        cells \in Payloads}

\* the dataframes of at most MaxRows rows
ConsumerCsvs == UNION {[1..n -> ConsumerRows] : n \in 0..MaxRows}

----------------------------------------------------------------------------
(* populate_consumers: Command.handle *)

\* Step 1: the natural keys the store holds before the run
Prefetch(db) ==
    [existing_consumer_nums |->
         {db.consumers[i].consumer_number : i \in DOMAIN db.consumers},
     existing_connection_nums |->
         {db.connections[i].sv_number : i \in DOMAIN db.connections},
     existing_variant_codes |->
         {db.variants[i].product_code : i \in DOMAIN db.variants}]

\* df.drop_duplicates(subset=['ConsumerNumber'], keep='first'): the indices
\* of the rows kept
DropDuplicatesLast(df) ==
    {i \in DOMAIN df :
        \A j \in (i + 1)..Len(df) : df[j].ConsumerNumber # df[i].ConsumerNumber}

DropDuplicates(df) ==
    {i \in DOMAIN df :
        \A j \in 1..(i - 1) : df[j].ConsumerNumber # df[i].ConsumerNumber}

\* int(float(row['LPGId'])) if row.get('LPGId') and
\* row.get('LPGId').replace('.', '', 1).isdigit() else None
LpgId(cell) ==
    IF Len(cell) > 0 /\ IsDigit(ReplaceFirst(cell, "."))
    THEN IF FloatParses(cell) THEN Value(<<IntOfFloat(cell)>>) ELSE ValueError
    ELSE Value(NoInt)

\* int(row['BlueBookNumber']) if row.get('BlueBookNumber') and
\* row.get('BlueBookNumber').isdigit() else None
BlueBook(cell) ==
    IF Len(cell) > 0 /\ IsDigit(cell)
    THEN IF IntParses(cell) THEN Value(<<Canon(cell)>>) ELSE ValueError
    ELSE Value(NoInt)

\* building the Consumer of the row raises ValueError
NewConsumerRaises(row) ==
    LpgId(row.LPGId).raises \/ BlueBook(row.BlueBookNumber).raises

\* the Consumer built from a row
NewConsumer(db, row) ==
    [consumer_number |-> row.ConsumerNumber,
     lpg_id |-> LpgId(row.LPGId).value,
     blue_book |-> BlueBook(row.BlueBookNumber).value,
     is_kyc_done |-> (row.KYCDone = "KYC Done"),
     category |-> Get(db.categories, row.Category),
     consumer_type |-> Get(db.consumer_types, row.ConsumerTypeIdDesc)]

\* Step 2: consumers_to_create, one per kept row whose number the store
\* does not hold
ConsumersToCreate(db, df) ==
    LET pre == Prefetch(db)
        keep == {i \in DropDuplicates(df) :
                    df[i].ConsumerNumber \notin pre.existing_consumer_nums}
        rows == SelectIdx(df, keep, 1)
    IN [i \in DOMAIN rows |-> NewConsumer(db, rows[i])]

\* Steps 1 to 3: stage the consumers and bulk create them; when the Consumer
\* of a row raises ValueError in Step 2, handle is left before any write
Step3(db, df) ==
    LET raised == \E i \in DropDuplicates(df) :
                     /\ df[i].ConsumerNumber
                          \notin Prefetch(db).existing_consumer_nums
                     /\ NewConsumerRaises(df[i])
        staged == IF raised THEN <<>> ELSE ConsumersToCreate(db, df)
        w == BulkCreate("Consumer", db.consumers, staged, BatchSize)
    IN [ok |-> ~raised /\ w.ok,
        db |-> [db EXCEPT !.consumers = w.table],
        log |-> Times(w.writes, "Consumer"),
        pre |-> Prefetch(db),
        consumers_to_create |-> staged,
        new_consumer_numbers |->
            {staged[i].consumer_number : i \in DOMAIN staged},
        addresses_to_create |-> <<>>, contacts_to_create |-> <<>>,
        variants_to_create |-> <<>>, connections_to_create |-> <<>>,
        sv_numbers_in_batch |-> {}, looped |-> FALSE]

\* s without its trailing zeros
RECURSIVE RStripZeros(_)
RStripZeros(s) ==
    IF Len(s) > 0 /\ s[Len(s)] = "0" THEN RStripZeros(SubSeq(s, 1, Len(s) - 1))
    ELSE s

\* float(s) for a short string float() accepts: the integer part and the
\* digits of the fraction
Float(s) ==
    LET k == FirstIndex(s, ".")
    IN [whole |-> Canon(IF k = 0 THEN s ELSE SubSeq(s, 1, k - 1)),
        frac |-> IF k = 0 THEN <<>> ELSE RStripZeros(SubSeq(s, k + 1, Len(s)))]

\* str(x) for a float x: "14.2", and "19.0" for a whole number
FloatStr(x) == x.whole \o <<".">> \o (IF x.frac = <<>> THEN <<"0">> ELSE x.frac)

\* str.title() of the two type tags
Title(tag) ==
    CASE tag = "DOMESTIC" -> <<"D", "o", "m", "e", "s", "t", "i", "c">>
      [] tag = "COMMERCIAL" ->
           <<"C", "o", "m", "m", "e", "r", "c", "i", "a", "l">>

\* a variant tagged DOMESTIC for every consumer type that resolves
NewVariantDomesticWhenResolved(db, row) ==
    LET ct == Get(db.consumer_types, row.ConsumerTypeIdDesc)
        variant_type_str == IF ct # None
                            THEN "DOMESTIC" ELSE "COMMERCIAL"
        variant_size == Float(row.NoOfCylinder)
    IN [product_code |-> row.ProdCode,
        name |-> Title(variant_type_str)
                   \o <<" ", "C", "y", "l", "i", "n", "d", "e", "r", " ">>
                   \o FloatStr(variant_size) \o <<"k", "g">>,
        product |-> Get(db.products, "LPG Cylinder"),
        unit |-> Get(db.units, "kg"),
        size |-> variant_size,
        variant_type |-> variant_type_str]

\* the ProductVariant built from a row
NewVariant(db, row) ==
    LET ct == Get(db.consumer_types, row.ConsumerTypeIdDesc)
        variant_type_str == IF ct # None /\ ct = "Domestic"
                            THEN "DOMESTIC" ELSE "COMMERCIAL"
        variant_size == Float(row.NoOfCylinder)
    IN [product_code |-> row.ProdCode,
        name |-> Title(variant_type_str)
                   \o <<" ", "C", "y", "l", "i", "n", "d", "e", "r", " ">>
                   \o FloatStr(variant_size) \o <<"k", "g">>,
        product |-> Get(db.products, "LPG Cylinder"),
        unit |-> Get(db.units, "kg"),
        size |-> variant_size,
        variant_type |-> variant_type_str]

\* the ConnectionDetails built from a row; product is patched in Step 6
\* (0: no variant)
NewConnection(db, row, consumer_id) ==
    [consumer_id |-> consumer_id, sv_number |-> row.SvNumber,
     connection_type |-> Get(db.connection_types, row.InDocTypeIdDesc),
     num_of_regulators |-> DigitsToNat(row.NoOfDpr),
     product |-> 0]

\* variants_to_create[prod_code] = variant on a dict kept in insertion order:
\* a key the dict holds keeps its place and takes the new value
DictSet(variants, v) ==
    IF \E i \in DOMAIN variants : variants[i].product_code = v.product_code
    THEN [i \in DOMAIN variants |->
             IF variants[i].product_code = v.product_code THEN v
             ELSE variants[i]]
    ELSE Append(variants, v)

\* a variant guard that forgets the codes staged in this run
StagesVariantAgain(st, row) ==
    /\ row.ProdCode # ""
    /\ row.ProdCode \notin st.pre.existing_variant_codes

\* the variant guard of a row: a non-blank code neither stored nor staged
StagesVariant(st, row) ==
    /\ row.ProdCode # ""
    /\ row.ProdCode \notin st.pre.existing_variant_codes
    /\ \A i \in DOMAIN st.variants_to_create :
           st.variants_to_create[i].product_code # row.ProdCode

\* a connection guard that looks at the store only
StagesConnectionAgain(st, row) ==
    row.SvNumber \notin st.pre.existing_connection_nums

\* the connection guard of a row: an sv_number neither stored nor staged
StagesConnection(st, row) ==
    /\ row.SvNumber \notin st.pre.existing_connection_nums
    /\ row.SvNumber \notin st.sv_numbers_in_batch

\* children for every row
StagesChildrenAlways(st, row) == TRUE

\* children for every row of a consumer the run created
StagesChildrenEveryRow(st, row) ==
    row.ConsumerNumber \notin st.pre.existing_consumer_nums

\* address and contact of a row: for the first row of a consumer the run
\* created (the number leaves new_consumer_numbers with that row)
StagesChildren(st, row) ==
    row.ConsumerNumber \in st.new_consumer_numbers

\* Step 5, one row of df.iterrows(); ok becomes FALSE when float() or int()
\* raises ValueError
Step5Row(st, row) ==
    LET consumer_id == ConsumerId(st.db.consumers, row.ConsumerNumber)
        children == StagesChildren(st, row)
        s1 == IF children
              THEN [st EXCEPT
                      !.addresses_to_create =
                          Append(@, [object_id |-> consumer_id,
                                     address_text |-> row.Address]),
                      !.contacts_to_create =
                          Append(@, [object_id |-> consumer_id,
                                     mobile_number |-> row.MobileNumber]),
                      !.new_consumer_numbers = @ \ {row.ConsumerNumber}]
              ELSE st
        variant == StagesVariant(s1, row)
        s2 == IF variant /\ FloatParses(row.NoOfCylinder)
              THEN [s1 EXCEPT !.variants_to_create =
                                  DictSet(@, NewVariant(st.db, row))]
              ELSE s1
        connection == StagesConnection(s2, row)
        s3 == IF connection /\ IntParses(row.NoOfDpr)
              THEN [s2 EXCEPT
                      !.connections_to_create =
                          Append(@, NewConnection(st.db, row, consumer_id)),
                      !.sv_numbers_in_batch = @ \cup {row.SvNumber}]
              ELSE s2
    IN IF consumer_id = 0 THEN st
       ELSE IF variant /\ ~FloatParses(row.NoOfCylinder)
       THEN [s1 EXCEPT !.ok = FALSE]
       ELSE IF connection /\ ~IntParses(row.NoOfDpr)
       THEN [s2 EXCEPT !.ok = FALSE]
       ELSE s3

\* Step 5: the loop over the rows of df, left at the first row that raises
RECURSIVE Step5(_, _, _)
Step5(st, df, i) ==
    IF ~st.ok THEN st
    ELSE IF i > Len(df) THEN [st EXCEPT !.looped = TRUE]
    ELSE Step5(Step5Row(st, df[i]), df, i + 1)

\* the code of the last row carrying the sv_number
LastProdCode(df, sv_number) ==
    LET i == CHOOSE i \in DOMAIN df :
                 /\ df[i].SvNumber = sv_number
                 /\ \A j \in (i + 1)..Len(df) : df[j].SvNumber # sv_number
    IN df[i].ProdCode

\* df.loc[df['SvNumber'] == sv_number, 'ProdCode'].iloc[0]
FirstProdCode(df, sv_number) ==
    LET i == CHOOSE i \in DOMAIN df :
                 /\ df[i].SvNumber = sv_number
                 /\ \A j \in 1..(i - 1) : df[j].SvNumber # sv_number
    IN df[i].ProdCode

\* one bulk_create of Step 6 on a table of the store
Write(st, model, field, objs) ==
    IF ~st.ok THEN st
    ELSE LET w == BulkCreate(model, st.db[field], objs, BatchSize)
         IN [st EXCEPT !.ok = w.ok, !.db[field] = w.table,
                       !.log = @ \o Times(w.writes, model)]

\* the re-fetch of the variants and the product link of every connection
PatchProducts(st, df) ==
    IF ~st.ok THEN st
    ELSE LET conns == st.connections_to_create
         IN [st EXCEPT
               !.log = Append(@, "refetch"),
               !.connections_to_create =
                   [i \in DOMAIN conns |->
                       [conns[i] EXCEPT !.product =
                           VariantId(st.db.variants,
                                     FirstProdCode(df, conns[i].sv_number))]]]

\* a Step 6 that writes addresses and contacts before the variants
Step6ChildrenFirst(st, df) ==
    LET a == Write(st, "Address", "addresses", st.addresses_to_create)
        c == Write(a, "Contact", "contacts", a.contacts_to_create)
        v == Write(c, "ProductVariant", "variants", c.variants_to_create)
        p == PatchProducts(v, df)
    IN Write(p, "ConnectionDetails", "connections", p.connections_to_create)

\* Step 6: variants, re-fetch, addresses, contacts, connections
Step6(st, df) ==
    LET v == Write(st, "ProductVariant", "variants", st.variants_to_create)
        p == PatchProducts(v, df)
        a == Write(p, "Address", "addresses", p.addresses_to_create)
        c == Write(a, "Contact", "contacts", a.contacts_to_create)
    IN Write(c, "ConnectionDetails", "connections", c.connections_to_create)

\* the body of handle
Handle(db, df) == Step6(Step5(Step3(db, df), df, 1), df)

\* a decorator that commits whatever the body wrote
AtomicCommitsAlways(db, run) == run.db

\* @transaction.atomic: commit when the body returns, roll back when it raises
Atomic(db, run) == IF run.ok THEN run.db ELSE db

----------------------------------------------------------------------------
(* The state machine *)

NoRun == [cmd |-> "none"]

Init ==
    /\ store = EmptyStore
    /\ last = NoRun
    /\ runs = 0

PopulateConsumers(df) ==
    /\ runs < MaxRuns
    /\ last' = [cmd |-> "populate_consumers", csv |-> df,
                before |-> store, run |-> Handle(store, df)]
    /\ store' = Atomic(store, last'.run)
    /\ runs' = runs + 1

Next ==
    \/ \E df \in ConsumerCsvs : PopulateConsumers(df)

Spec == Init /\ [][Next]_vars

----------------------------------------------------------------------------
(* populate_consumers_route *)

\* the AreaCodeDesc cells: blank, "A-x", "B-y-z", "A -x" and "C-x" (a code
\* no route has)
AreaDescs ==
    {<<>>, <<"A", "-", "x">>, <<"B", "-", "y", "-", "z">>,
     <<"A", " ", "-", "x">>, <<"C", "-", "x">>}

\* "c3" is a consumer no import of the model creates
RouteRows == [ConsumerNumber : {"", "c1", "c2", "c3"}, AreaCodeDesc : AreaDescs]

RouteCsvs == UNION {[1..n -> RouteRows] : n \in 0..MaxRows}

\* str.strip() for the blank as whitespace
RECURSIVE Strip(_)
Strip(s) ==
    IF Len(s) = 0 THEN s
    ELSE IF Head(s) = " " THEN Strip(Tail(s))
    ELSE IF s[Len(s)] = " " THEN Strip(SubSeq(s, 1, Len(s) - 1))
    ELSE s

\* area_code_desc.split('-')[0].strip()
AreaCode(area_code_desc) ==
    LET k == FirstIndex(area_code_desc, "-")
    IN Strip(IF k = 0 THEN area_code_desc ELSE SubSeq(area_code_desc, 1, k - 1))

\* an assignment test that looks at the store only
AlreadyAssignedInStore(st, consumer_id) ==
    consumer_id \in st.assigned_consumer_ids

\* the consumer has an assignment in the store or one staged in this run
AlreadyAssigned(st, consumer_id) ==
    \/ consumer_id \in st.assigned_consumer_ids
    \/ consumer_id \in st.processed_consumer_ids_in_batch

\* a loop that counts an unresolved consumer or route as already assigned
RouteRowUnresolvedAsAssigned(st, row) ==
    LET area_code == AreaCode(row.AreaCodeDesc)
        consumer_id == ConsumerId(st.db.consumers, row.ConsumerNumber)
    IN IF row.ConsumerNumber = "" \/ row.AreaCodeDesc = <<>>
       THEN [st EXCEPT !.skipped_missing_data = @ + 1]
       ELSE IF consumer_id = 0 \/ area_code \notin st.db.routes
       THEN [st EXCEPT !.skipped_already_assigned = @ + 1]
       ELSE IF AlreadyAssigned(st, consumer_id)
       THEN [st EXCEPT !.skipped_already_assigned = @ + 1]
       ELSE [st EXCEPT
               !.assignments_to_create =
                   Append(@, [consumer |-> consumer_id, route |-> area_code]),
               !.processed_consumer_ids_in_batch = @ \cup {consumer_id}]

\* a loop that tests for an assignment before it resolves the route
RouteRowAssignedFirst(st, row) ==
    LET area_code == AreaCode(row.AreaCodeDesc)
        consumer_id == ConsumerId(st.db.consumers, row.ConsumerNumber)
    IN IF row.ConsumerNumber = "" \/ row.AreaCodeDesc = <<>>
       THEN [st EXCEPT !.skipped_missing_data = @ + 1]
       ELSE IF consumer_id = 0
       THEN [st EXCEPT !.skipped_missing_data = @ + 1]
       ELSE IF AlreadyAssigned(st, consumer_id)
       THEN [st EXCEPT !.skipped_already_assigned = @ + 1]
       ELSE IF area_code \notin st.db.routes
       THEN [st EXCEPT !.skipped_missing_data = @ + 1]
       ELSE [st EXCEPT
               !.assignments_to_create =
                   Append(@, [consumer |-> consumer_id, route |-> area_code]),
               !.processed_consumer_ids_in_batch = @ \cup {consumer_id}]

\* one row of the loop of Step 2
RouteRow(st, row) ==
    LET area_code == AreaCode(row.AreaCodeDesc)
        consumer_id == ConsumerId(st.db.consumers, row.ConsumerNumber)
    IN IF row.ConsumerNumber = "" \/ row.AreaCodeDesc = <<>>
       THEN [st EXCEPT !.skipped_missing_data = @ + 1]
       ELSE IF consumer_id = 0 \/ area_code \notin st.db.routes
       THEN [st EXCEPT !.skipped_missing_data = @ + 1]
       ELSE IF AlreadyAssigned(st, consumer_id)
       THEN [st EXCEPT !.skipped_already_assigned = @ + 1]
       ELSE [st EXCEPT
               !.assignments_to_create =
                   Append(@, [consumer |-> consumer_id, route |-> area_code]),
               !.processed_consumer_ids_in_batch = @ \cup {consumer_id}]

RECURSIVE RouteLoop(_, _, _)
RouteLoop(st, df, i) ==
    IF i > Len(df) THEN st ELSE RouteLoop(RouteRow(st, df[i]), df, i + 1)

\* Steps 1 and 2: pre-fetch and the loop over the rows
RouteStage(db, df) ==
    RouteLoop([db |-> db,
               assigned_consumer_ids |->
                   {db.assignments[i].consumer : i \in DOMAIN db.assignments},
               assignments_to_create |-> <<>>,
               processed_consumer_ids_in_batch |-> {},
               skipped_already_assigned |-> 0,
               skipped_missing_data |-> 0,
               needs_rollback |-> FALSE, created |-> 0, total |-> Len(df)],
              df, 1)

\* Step 3 and the summary: the bulk insert, whose exception is caught and
\* reported inside the transaction, which it marks for rollback
RouteHandle(db, df) ==
    LET st == RouteStage(db, df)
        w == BulkCreate("ConsumerRouteAssignment", db.assignments,
                        st.assignments_to_create, BatchSize)
    IN [st EXCEPT !.db.assignments = w.table,
                  !.needs_rollback = ~w.ok,
                  !.created = Len(st.assignments_to_create)]

\* @transaction.atomic around a body that returns: commit unless the
\* transaction is marked for rollback
AtomicReturn(db, run) == IF run.needs_rollback THEN db ELSE run.db

\* the store an import of two consumers leaves
SeedCsv ==
    <<ConsumerRow("c1", "s1", "p1", PlainCells),
      ConsumerRow("c2", "s2", "", OtherCells)>>

SeededStore == Atomic(EmptyStore, Handle(EmptyStore, SeedCsv))

PopulateConsumersRoute(df) ==
    /\ runs < MaxRuns
    /\ last' = [cmd |-> "populate_consumers_route", csv |-> df,
                before |-> store, run |-> RouteHandle(store, df)]
    /\ store' = AtomicReturn(store, last'.run)
    /\ runs' = runs + 1

InitRoute ==
    /\ store = SeededStore
    /\ last = NoRun
    /\ runs = 0

NextRoute ==
    \/ \E df \in RouteCsvs : PopulateConsumersRoute(df)

SpecRoute == InitRoute /\ [][NextRoute]_vars

----------------------------------------------------------------------------
(* find_duplicate_ration_cards *)

\* longest CSV a report is run on
MaxReportRows == 3

\* the ration card numbers, in the order groupby sorts them
RationCardOrder == <<"r1", "r2">>

RationRows ==
    [Rationcardno : {""} \cup Range(RationCardOrder),
     ConsumerNumber : ConsumerNumbers]

RationCsvs == UNION {[1..n -> RationRows] : n \in 0..MaxReportRows}

\* a count of the rows of the group
NuniqueCountsRows(df, idx) == Cardinality(idx)

\* ['ConsumerNumber'].nunique() over the rows of df at the indices idx
Nunique(df, idx) == Cardinality({df[i].ConsumerNumber : i \in idx})

\* the rows of a group after drop_duplicates(subset=['ConsumerNumber'])
UniqueConsumerRows(df, idx) ==
    {i \in idx : \A j \in idx : j < i => df[j].ConsumerNumber # df[i].ConsumerNumber}

\* the table rows printed for the indices idx, in row order: the row number
\* index + 2 and the consumer number
RECURSIVE TableRows(_, _, _)
TableRows(df, idx, i) ==
    IF i > Len(df) THEN <<>>
    ELSE (IF i \in idx
          THEN <<[row |-> (i - 1) + 2, consumer_number |-> df[i].ConsumerNumber]>>
          ELSE <<>>) \o TableRows(df, idx, i + 1)

\* the groups of the report, in the order of the keys from the k-th on
RECURSIVE RationGroups(_, _, _)
RationGroups(df, true_duplicates, k) ==
    IF k > Len(RationCardOrder) THEN <<>>
    ELSE LET r == RationCardOrder[k]
             group_df == {i \in DOMAIN df : df[i].Rationcardno = r}
         IN (IF r \in true_duplicates
             THEN <<[ration_card_num |-> r,
                     unique_consumer_count |-> Nunique(df, group_df),
                     rows |-> TableRows(df, UniqueConsumerRows(df, group_df), 1)]>>
             ELSE <<>>) \o RationGroups(df, true_duplicates, k + 1)

\* handle: the groups reported, none when no card is shared
RationReport(df) ==
    LET df_filtered == {i \in DOMAIN df : df[i].Rationcardno # ""}
        keys == {df[i].Rationcardno : i \in df_filtered}
        grouped == [r \in keys |->
                       Nunique(df, {i \in df_filtered : df[i].Rationcardno = r})]
        true_duplicates == {r \in keys : grouped[r] > 1}
    IN RationGroups(df, true_duplicates, 1)

FindDuplicateRationCards(df) ==
    /\ runs < MaxRuns
    /\ last' = [cmd |-> "find_duplicate_ration_cards", csv |-> df,
                report |-> RationReport(df)]
    /\ UNCHANGED store
    /\ runs' = runs + 1

NextRation ==
    \/ \E df \in RationCsvs : FindDuplicateRationCards(df)

SpecRation == Init /\ [][NextRation]_vars

----------------------------------------------------------------------------
(* find_duplicate_sv_numbers *)

\* the SvNumber cells, in the order sort_values and groupby sort them
SvOrder == <<"", "s1", "s2">>

SvRows == [SvNumber : Range(SvOrder), ConsumerNumber : ConsumerNumbers]

SvCsvs == UNION {[1..n -> SvRows] : n \in 0..MaxReportRows}

\* df.duplicated(subset=['SvNumber'], keep='first'): every occurrence but
\* the first
DuplicatedKeepFirst(df) ==
    {i \in DOMAIN df : \E j \in 1..(i - 1) : df[j].SvNumber = df[i].SvNumber}

\* df.duplicated(subset=['SvNumber'], keep=False): every row whose SvNumber
\* another row carries
Duplicated(df) ==
    {i \in DOMAIN df :
        \E j \in DOMAIN df : j # i /\ df[j].SvNumber = df[i].SvNumber}

\* the groups of the report from the k-th key on; the rows of a group are
\* the set of (row number index + 2, consumer number) printed, the order
\* within a group being that of an unstable sort
RECURSIVE SvGroups(_, _, _)
SvGroups(df, mask, k) ==
    IF k > Len(SvOrder) THEN <<>>
    ELSE LET group_df == {i \in mask : df[i].SvNumber = SvOrder[k]}
         IN (IF group_df # {}
             THEN <<[sv_num |-> SvOrder[k],
                     rows |-> {[row |-> (i - 1) + 2,
                                consumer_number |-> df[i].ConsumerNumber] :
                                  i \in group_df}]>>
             ELSE <<>>) \o SvGroups(df, mask, k + 1)

\* handle: the groups reported, none when no SvNumber is duplicated
SvReport(df) == SvGroups(df, Duplicated(df), 1)

FindDuplicateSvNumbers(df) ==
    /\ runs < MaxRuns
    /\ last' = [cmd |-> "find_duplicate_sv_numbers", csv |-> df,
                report |-> SvReport(df)]
    /\ UNCHANGED store
    /\ runs' = runs + 1

NextSv ==
    \/ \E df \in SvCsvs : FindDuplicateSvNumbers(df)

SpecSv == Init /\ [][NextSv]_vars

----------------------------------------------------------------------------
(* validate_consumer_addresses *)

\* the Route and RouteArea tables the validator reads: route "A" described
\* "x" owns the sub-area "x", route "B" described "y-z" owns none
RouteTable ==
    {[area_code |-> <<"A">>, area_code_description |-> <<"x">>],
     [area_code |-> <<"B">>, area_code_description |-> <<"y", "-", "z">>]}

RouteAreaTable == {[route |-> <<"A">>, area_name |-> <<"x">>]}

ValidateStore == [routes |-> RouteTable, route_areas |-> RouteAreaTable]

\* the Address cells: blank, "ax" (contains the sub-area in lower case) and
\* "y" (contains none)
Addresses == {<<>>, <<"a", "x">>, <<"y">>}

\* the AreaCodeDesc cells of the validator's CSV: "A-x", "B-y-z" and "A"
ValidateDescs == {<<"A", "-", "x">>, <<"B", "-", "y", "-", "z">>, <<"A">>}

\* the filter argument: a cell of the CSV or "C-x", which names no route
ValidateFilters == ValidateDescs \cup {<<"C", "-", "x">>}

ValidateRows ==
    [ConsumerNumber : ConsumerNumbers, AreaCodeDesc : ValidateDescs,
     Address : Addresses]

ValidateCsvs == UNION {[1..n -> ValidateRows] : n \in 0..MaxRows}

\* str.upper() on the letters of the model
UpperChar(c) ==
    CASE c = "a" -> "A" [] c = "x" -> "X" [] c = "y" -> "Y" [] c = "z" -> "Z"
      [] OTHER -> c

Upper(s) == [i \in DOMAIN s |-> UpperChar(s[i])]

\* sub in s
Contains(sub, s) ==
    \E i \in 0..(Len(s) - Len(sub)) : SubSeq(s, i + 1, i + Len(sub)) = sub

\* the cells of a row, stripped; an atom cell of the model holds no blank
StripRow(row) ==
    [consumer_number |-> row.ConsumerNumber,
     area_code_desc |-> Strip(row.AreaCodeDesc),
     address |-> Strip(row.Address)]

\* the rows process_csv keeps: no blank cell, AreaCodeDesc equal to the filter
KeptRow(row, area_code_desc_filter) ==
    LET r == StripRow(row)
    IN /\ r.consumer_number # "" /\ r.area_code_desc # <<>> /\ r.address # <<>>
       /\ r.area_code_desc = area_code_desc_filter

\* consumers_by_area[filter] as a list of (consumer_number, address): the
\* kept rows, the first of every consumer number only
process_csv(df, area_code_desc_filter) ==
    LET first == {i \in DOMAIN df :
                    /\ KeptRow(df[i], area_code_desc_filter)
                    /\ \A j \in 1..(i - 1) :
                         ~(/\ KeptRow(df[j], area_code_desc_filter)
                           /\ df[j].ConsumerNumber = df[i].ConsumerNumber)}
        kept == SelectIdx(df, first, 1)
    IN [i \in DOMAIN kept |->
          [consumer_number |-> kept[i].ConsumerNumber,
           address |-> Strip(kept[i].Address)]]

\* index of the last occurrence of ch in s, 0 when there is none
LastIndex(s, ch) ==
    IF \E i \in DOMAIN s : s[i] = ch
    THEN CHOOSE i \in DOMAIN s : s[i] = ch /\ \A j \in (i + 1)..Len(s) : s[j] # ch
    ELSE 0

\* a split on the last hyphen
parse_area_code_desc_rsplit(area_code_desc) ==
    LET k == LastIndex(area_code_desc, "-")
    IN IF k = 0
       THEN [ok |-> FALSE, area_code |-> <<>>, area_description |-> <<>>]
       ELSE [ok |-> TRUE,
             area_code |-> Strip(SubSeq(area_code_desc, 1, k - 1)),
             area_description |->
                 Strip(SubSeq(area_code_desc, k + 1, Len(area_code_desc)))]

\* split('-', 1): an error without a hyphen, else both parts stripped
parse_area_code_desc(area_code_desc) ==
    LET k == FirstIndex(area_code_desc, "-")
    IN IF k = 0
       THEN [ok |-> FALSE, area_code |-> <<>>, area_description |-> <<>>]
       ELSE [ok |-> TRUE,
             area_code |-> Strip(SubSeq(area_code_desc, 1, k - 1)),
             area_description |->
                 Strip(SubSeq(area_code_desc, k + 1, Len(area_code_desc)))]

\* the routes with that code and that description (area_code is unique, so
\* one at most)
find_route(db, area_code, area_description) ==
    {r \in db.routes : /\ r.area_code = area_code
                       /\ r.area_code_description = area_description}

\* the names of the sub-areas of the route, in upper case
get_route_areas(db, route) ==
    {Upper(a.area_name) : a \in {x \in db.route_areas : x.route = route.area_code}}

\* the consumers whose address contains no area name
validate_consumers(consumers, route_areas) ==
    LET invalid == {i \in DOMAIN consumers :
                      ~\E area \in route_areas :
                          Contains(area, Upper(consumers[i].address))}
    IN SelectIdx(consumers, invalid, 1)

\* Command.handle: the outcome is "error" (CommandError), "no_data" (return
\* before Step 2), "mismatches" (the table of invalid consumers) or
\* "all_valid" (the message that all addresses contain valid area names)
ValidateHandle(db, df, area_code_desc_filter) ==
    LET consumers == process_csv(df, area_code_desc_filter)
        p == parse_area_code_desc(area_code_desc_filter)
        found == find_route(db, p.area_code, p.area_description)
        route_areas ==
            IF found = {} THEN {}
            ELSE get_route_areas(db, CHOOSE r \in found : TRUE)
        invalid ==
            IF found = {} \/ route_areas = {} THEN <<>>
            ELSE validate_consumers(consumers, route_areas)
    IN IF consumers = <<>>
       THEN [outcome |-> "no_data", consumers |-> consumers,
             route_found |-> FALSE, route_areas |-> {}, invalid |-> <<>>,
             total |-> 0, mismatch |-> 0, match |-> 0]
       ELSE IF ~p.ok
       THEN [outcome |-> "error", consumers |-> consumers,
             route_found |-> FALSE, route_areas |-> {}, invalid |-> <<>>,
             total |-> 0, mismatch |-> 0, match |-> 0]
       ELSE [outcome |-> IF invalid = <<>> THEN "all_valid" ELSE "mismatches",
             consumers |-> consumers,
             route_found |-> found # {}, route_areas |-> route_areas,
             invalid |-> invalid,
             total |-> Len(consumers), mismatch |-> Len(invalid),
             match |-> Len(consumers) - Len(invalid)]

ValidateConsumerAddresses(df, area_code_desc_filter) ==
    /\ runs < MaxRuns
    /\ last' = [cmd |-> "validate_consumer_addresses", csv |-> df,
                filter |-> area_code_desc_filter,
                report |-> ValidateHandle(store, df, area_code_desc_filter)]
    /\ UNCHANGED store
    /\ runs' = runs + 1

InitValidate ==
    /\ store = ValidateStore
    /\ last = NoRun
    /\ runs = 0

NextValidate ==
    \/ \E df \in ValidateCsvs, f \in ValidateFilters :
         ValidateConsumerAddresses(df, f)

SpecValidate == InitValidate /\ [][NextValidate]_vars

----------------------------------------------------------------------------
(* The split of an area-code-description, by both commands that read one *)

\* longest area-code-description of the split
MaxDescLen == 5

DescChars == {"A", "x", "-", " "}

AreaCodeDescs == UNION {[1..n -> DescChars] : n \in 0..MaxDescLen}

\* nothing computed yet
NotYet == <<>>

InitSplit ==
    /\ store = EmptyStore
    /\ last \in [cmd : {"split"}, area_code_desc : AreaCodeDescs,
                 parsed : {NotYet}, area_code : {NotYet}]
    /\ runs = 0

\* the address validator parses the string
ParseAreaCodeDesc ==
    /\ last.parsed = NotYet
    /\ last' = [last EXCEPT !.parsed = <<parse_area_code_desc(last.area_code_desc)>>]
    /\ UNCHANGED <<store, runs>>

\* the route-assignment import takes the code of the string
SplitAreaCode ==
    /\ last.area_code = NotYet
    /\ last' = [last EXCEPT !.area_code = <<AreaCode(last.area_code_desc)>>]
    /\ UNCHANGED <<store, runs>>

NextSplit ==
    \/ ParseAreaCodeDesc
    \/ SplitAreaCode

SpecSplit == InitSplit /\ [][NextSplit]_vars

----------------------------------------------------------------------------
(* populate_consumers on a CSV of one row, over the numeric cells *)

\* longest short cell
MaxCellLen == 3

CellChars == {"0", "1", "9", ".", "-", SuperscriptTwo}

ShortCells == UNION {[1..n -> CellChars] : n \in 0..MaxCellLen}

\* the integers 9007199254740990 .. 9007199254740999 around 2^53, and an
\* LPG id of 17 digits
LongCells ==
    {SubSeq(TwoTo53, 1, 14) \o <<"9", d>> : d \in DigitChars}
      \cup {<<"1","2","3","4","5","6","7","8","9","0","1","2","3","4","5","6","7">>}

\* the plain row of consumer c1 with these LPGId and BlueBookNumber cells
CellRow(lpg_id, blue_book) ==
    ConsumerRow("c1", "s1", "",
                [PlainCells EXCEPT !.LPGId = lpg_id,
                                   !.BlueBookNumber = blue_book])

NextCells ==
    \/ \E cell \in ShortCells : PopulateConsumers(<<CellRow(<<>>, cell)>>)
    \/ \E cell \in ShortCells \cup LongCells :
         PopulateConsumers(<<CellRow(cell, <<>>)>>)

SpecCells == Init /\ [][NextCells]_vars

----------------------------------------------------------------------------
(* populate_lookups *)

\* the columns the command reads, in the order it processes them, and the
\* registry each one fills
LookupColumns ==
    <<"TypeOfMarket", "InDocTypeIdDesc", "ConsumerTypeIdDesc", "Category",
      "BPLType", "DCTType", "Scheme">>

LookupTables ==
    <<"market_types", "connection_types", "consumer_types",
      "consumer_categories", "bpl_types", "dct_types", "schemes">>

\* the store of the registries: every table a sequence of names, and the
\* product variants
EmptyLookups ==
    [products |-> <<>>, units |-> <<>>, variants |-> <<>>,
     market_types |-> <<>>,
     connection_types |-> <<>>, consumer_types |-> <<>>,
     consumer_categories |-> <<>>, bpl_types |-> <<>>, dct_types |-> <<>>,
     schemes |-> <<>>]

\* the rows of the CSV: a row of blank cells, two rows that share the
\* DCTType only (the second without a scheme) and a row that repeats cells
\* of both
LookupRows ==
    {[TypeOfMarket |-> "", InDocTypeIdDesc |-> "", ConsumerTypeIdDesc |-> "",
      Category |-> "", BPLType |-> "", DCTType |-> "", Scheme |-> ""],
     [TypeOfMarket |-> "Urban", InDocTypeIdDesc |-> "SV",
      ConsumerTypeIdDesc |-> "Domestic", Category |-> "General",
      BPLType |-> "BPL", DCTType |-> "DCT", Scheme |-> "PMUY"],
     [TypeOfMarket |-> "Rural", InDocTypeIdDesc |-> "TV",
      ConsumerTypeIdDesc |-> "Commercial", Category |-> "Special",
      BPLType |-> "APL", DCTType |-> "DCT", Scheme |-> ""],
     [TypeOfMarket |-> "Urban", InDocTypeIdDesc |-> "TV",
      ConsumerTypeIdDesc |-> "Domestic", Category |-> "",
      BPLType |-> "", DCTType |-> "", Scheme |-> "PMUY"]}

LookupCsvs == UNION {[1..n -> LookupRows] : n \in 0..MaxRows}

\* df[col].unique(): the values of the column in the order of their first
\* appearance
Unique(df, col) ==
    LET first == {i \in DOMAIN df :
                    \A j \in 1..(i - 1) : df[j][col] # df[i][col]}
        rows == SelectIdx(df, first, 1)
    IN [i \in DOMAIN rows |-> rows[i][col]]

\* a create without a look at the table
GetOrCreateAlwaysCreates(db, table, name) ==
    [db EXCEPT ![table] = Append(@, name)]

\* Model.objects.get_or_create(name=name): a row is created when the table
\* holds none of that name
GetOrCreate(db, table, name) ==
    IF \E i \in DOMAIN db[table] : db[table][i] = name THEN db
    ELSE [db EXCEPT ![table] = Append(@, name)]

\* the get_or_create calls of Step 2 for one column: "if name:" skips the
\* blank value
ColumnCalls(df, k) ==
    LET names == Unique(df, LookupColumns[k])
        keep == {i \in DOMAIN names : names[i] # ""}
        kept == SelectIdx(names, keep, 1)
    IN [i \in DOMAIN kept |-> [table |-> LookupTables[k], name |-> kept[i]]]

RECURSIVE AllColumnCalls(_, _)
AllColumnCalls(df, k) ==
    IF k > Len(LookupColumns) THEN <<>>
    ELSE ColumnCalls(df, k) \o AllColumnCalls(df, k + 1)

\* the get_or_create calls of one run, in order: the two products, the
\* three units, then the columns
LookupCalls(df) ==
    <<[table |-> "products", name |-> "LPG Cylinder"],
      [table |-> "products", name |-> "Appliance"],
      [table |-> "units", name |-> "kg"],
      [table |-> "units", name |-> "pcs"],
      [table |-> "units", name |-> "mtr"]>> \o AllColumnCalls(df, 1)

\* the store after the first n calls; every call commits by itself, the
\* command opens no transaction
RECURSIVE ApplyCalls(_, _, _)
ApplyCalls(db, calls, n) ==
    IF n = 0 THEN db
    ELSE GetOrCreate(ApplyCalls(db, calls, n - 1), calls[n].table, calls[n].name)

\* Command.handle
LookupsHandle(db, df) == ApplyCalls(db, LookupCalls(df), Len(LookupCalls(df)))

PopulateLookups(df) ==
    /\ runs < MaxRuns
    /\ last' = [cmd |-> "populate_lookups", csv |-> df, before |-> store]
    /\ store' = LookupsHandle(store, df)
    /\ runs' = runs + 1

\* populate_products: the dictionaries of lpg_variants, regulator_variants
\* and hose_variants, in the order of the three loops; a name is the
\* sequence of its characters
ProductVariantData ==
    <<[product_code |-> "LPG-DOM-14.2",
       name |->
           <<"D", "o", "m", "e", "s", "t", "i", "c", " ", "L", "P", "G",
             " ", "C", "y", "l", "i", "n", "d", "e", "r", " ", "1", "4",
             ".", "2", " ", "k", "g">>,
       product |-> "LPG Cylinder", unit |-> "kg",
       size |-> Float(<<"1", "4", ".", "2">>), variant_type |-> "DOMESTIC"],
      [product_code |-> "LPG-DOM-5", name |->
           <<"D", "o", "m", "e", "s", "t", "i", "c", " ", "L", "P", "G",
             " ", "C", "y", "l", "i", "n", "d", "e", "r", " ", "5", " ",
             "k", "g">>,
       product |-> "LPG Cylinder", unit |-> "kg",
       size |-> Float(<<"5", ".", "0">>), variant_type |-> "DOMESTIC"],
      [product_code |-> "LPG-COM-19",
       name |->
           <<"C", "o", "m", "m", "e", "r", "c", "i", "a", "l", " ", "L",
             "P", "G", " ", "C", "y", "l", "i", "n", "d", "e", "r", " ",
             "1", "9", " ", "k", "g">>,
       product |-> "LPG Cylinder", unit |-> "kg",
       size |-> Float(<<"1", "9", ".", "0">>), variant_type |-> "COMMERCIAL"],
      [product_code |-> "LPG-COM-35",
       name |->
           <<"C", "o", "m", "m", "e", "r", "c", "i", "a", "l", " ", "L",
             "P", "G", " ", "C", "y", "l", "i", "n", "d", "e", "r", " ",
             "3", "5", " ", "k", "g">>,
       product |-> "LPG Cylinder", unit |-> "kg",
       size |-> Float(<<"3", "5", ".", "0">>), variant_type |-> "COMMERCIAL"],
      [product_code |-> "LPG-IND-47.5",
       name |->
           <<"I", "n", "d", "u", "s", "t", "r", "i", "a", "l", " ", "L",
             "P", "G", " ", "C", "y", "l", "i", "n", "d", "e", "r", " ",
             "4", "7", ".", "5", " ", "k", "g">>,
       product |-> "LPG Cylinder", unit |-> "kg",
       size |-> Float(<<"4", "7", ".", "5">>), variant_type |-> "INDUSTRIAL"],
      [product_code |-> "REG-DOM-STD", name |->
           <<"S", "t", "a", "n", "d", "a", "r", "d", " ", "D", "o", "m",
             "e", "s", "t", "i", "c", " ", "R", "e", "g", "u", "l", "a",
             "t", "o", "r">>,
       product |-> "Regulator", unit |-> "pcs",
       size |-> Float(<<"1">>), variant_type |-> "DOMESTIC"],
      [product_code |-> "REG-COM-HP",
       name |->
           <<"H", "i", "g", "h", " ", "P", "r", "e", "s", "s", "u", "r",
             "e", " ", "C", "o", "m", "m", "e", "r", "c", "i", "a", "l",
             " ", "R", "e", "g", "u", "l", "a", "t", "o", "r">>,
       product |-> "Regulator", unit |-> "pcs",
       size |-> Float(<<"1">>), variant_type |-> "COMMERCIAL"],
      [product_code |-> "HOSE-DOM-1M", name |->
           <<"D", "o", "m", "e", "s", "t", "i", "c", " ", "G", "a", "s",
             " ", "H", "o", "s", "e", " ", "1", " ", "m", "e", "t", "e",
             "r">>,
       product |-> "Gas Hose", unit |-> "mtr",
       size |-> Float(<<"1", ".", "0">>), variant_type |-> "DOMESTIC"],
      [product_code |-> "HOSE-DOM-2M", name |->
           <<"D", "o", "m", "e", "s", "t", "i", "c", " ", "G", "a", "s",
             " ", "H", "o", "s", "e", " ", "2", " ", "m", "e", "t", "e",
             "r">>,
       product |-> "Gas Hose", unit |-> "mtr",
       size |-> Float(<<"2", ".", "0">>), variant_type |-> "DOMESTIC"],
      [product_code |-> "HOSE-COM-3M", name |->
           <<"C", "o", "m", "m", "e", "r", "c", "i", "a", "l", " ", "G",
             "a", "s", " ", "H", "o", "s", "e", " ", "3", " ", "m", "e",
             "t", "e", "r">>,
       product |-> "Gas Hose", unit |-> "mtr",
       size |-> Float(<<"3", ".", "0">>), variant_type |-> "COMMERCIAL"]>>

\* ProductVariant.objects.get_or_create(product_code=..., defaults=data): a
\* row is created when the table holds none of that code
GetOrCreateVariant(db, data) ==
    IF \E i \in DOMAIN db.variants :
           db.variants[i].product_code = data.product_code
    THEN db
    ELSE [db EXCEPT !.variants = Append(@, data)]

\* the get_or_create calls of populate_products, in order: the four units,
\* the four products, then the ten variants
ProductsCalls ==
    <<[table |-> "units", name |-> "kg"],
      [table |-> "units", name |-> "pcs"],
      [table |-> "units", name |-> "mtr"],
      [table |-> "units", name |-> "ltr"],
      [table |-> "products", name |-> "LPG Cylinder"],
      [table |-> "products", name |-> "Appliance"],
      [table |-> "products", name |-> "Regulator"],
      [table |-> "products", name |-> "Gas Hose"]>>
    \o [i \in DOMAIN ProductVariantData |->
           [table |-> "variants", name |-> ProductVariantData[i].product_code,
            defaults |-> ProductVariantData[i]]]

\* one get_or_create call of either command
ApplyCall(db, call) ==
    IF call.table = "variants" THEN GetOrCreateVariant(db, call.defaults)
    ELSE GetOrCreate(db, call.table, call.name)

\* the store after the first n calls of populate_products; every call
\* commits by itself
RECURSIVE ApplyProductsCalls(_, _)
ApplyProductsCalls(db, n) ==
    IF n = 0 THEN db
    ELSE ApplyCall(ApplyProductsCalls(db, n - 1), ProductsCalls[n])

\* populate_products, Command.handle
ProductsHandle(db) == ApplyProductsCalls(db, Len(ProductsCalls))

PopulateProducts ==
    /\ runs < MaxRuns
    /\ last' = [cmd |-> "populate_products", before |-> store]
    /\ store' = ProductsHandle(store)
    /\ runs' = runs + 1

InitLookups ==
    /\ store = EmptyLookups
    /\ last = NoRun
    /\ runs = 0

NextLookups ==
    \/ \E df \in LookupCsvs : PopulateLookups(df)
    \/ PopulateProducts

SpecLookups == InitLookups /\ [][NextLookups]_vars

----------------------------------------------------------------------------
(* The commands on a fatal input: a path to no file, or a CSV whose header *)
(* lacks a required column                                                 *)

\* the exit status of the process: 0 when handle returns, 1 when it raises
\* (CommandError or any other exception)
ExitReturned == 0
ExitRaised == 1

RouteColumns == {"ConsumerNumber", "AreaCodeDesc"}
ValidateColumns == {"ConsumerNumber", "AreaCodeDesc", "Address"}

\* the row of a CSV whose header holds the columns cols only
Restrict(row, cols) == [c \in cols |-> row[c]]

\* the CSVs of at most MaxRows rows whose header holds cols only
Frames(rows, cols) ==
    UNION {[1..n -> {Restrict(r, cols) : r \in rows}] : n \in 0..MaxRows}

\* row.get('ConsumerNumber') and row.get('AreaCodeDesc') of
\* populate_consumers_route: None for a column the header lacks, which "not"
\* takes for blank as it takes the empty cell
RouteRowGet(row) ==
    [ConsumerNumber |-> IF "ConsumerNumber" \in DOMAIN row
                        THEN row.ConsumerNumber ELSE "",
     AreaCodeDesc |-> IF "AreaCodeDesc" \in DOMAIN row
                      THEN row.AreaCodeDesc ELSE <<>>]

\* populate_consumers_route on a path to no file: FileNotFoundError is
\* caught, a message goes to stderr and handle returns
RouteNoFile(db) ==
    [exit |-> ExitReturned, error_message |-> TRUE, summary |-> FALSE, db |-> db]

\* populate_consumers_route on a CSV that lacks columns: no check of the
\* header, the loop runs and the summary is printed
RouteLacking(db, df) ==
    LET run == RouteHandle(db, [i \in DOMAIN df |-> RouteRowGet(df[i])])
    IN [exit |-> ExitReturned, error_message |-> FALSE, summary |-> TRUE,
        db |-> AtomicReturn(db, run),
        skipped_missing_data |-> run.skipped_missing_data]

\* validate_consumer_addresses on a path to no file, or on a CSV without a
\* required column: CommandError before any row is read
ValidateFatal(db) ==
    [exit |-> ExitRaised, error_message |-> TRUE, summary |-> FALSE, db |-> db]

PopulateConsumersRouteNoFile ==
    /\ runs < MaxRuns
    /\ last' = [cmd |-> "populate_consumers_route", file |-> "missing",
                before |-> store, outcome |-> RouteNoFile(store)]
    /\ store' = last'.outcome.db
    /\ runs' = runs + 1

PopulateConsumersRouteLacking(cols, df) ==
    /\ runs < MaxRuns
    /\ last' = [cmd |-> "populate_consumers_route", file |-> "present",
                columns |-> cols, csv |-> df,
                before |-> store, outcome |-> RouteLacking(store, df)]
    /\ store' = last'.outcome.db
    /\ runs' = runs + 1

ValidateConsumerAddressesNoFile(area_code_desc_filter) ==
    /\ runs < MaxRuns
    /\ last' = [cmd |-> "validate_consumer_addresses", file |-> "missing",
                filter |-> area_code_desc_filter,
                before |-> store, outcome |-> ValidateFatal(store)]
    /\ store' = last'.outcome.db
    /\ runs' = runs + 1

ValidateConsumerAddressesLacking(cols, df, area_code_desc_filter) ==
    /\ runs < MaxRuns
    /\ last' = [cmd |-> "validate_consumer_addresses", file |-> "present",
                columns |-> cols, csv |-> df,
                filter |-> area_code_desc_filter,
                before |-> store, outcome |-> ValidateFatal(store)]
    /\ store' = last'.outcome.db
    /\ runs' = runs + 1

NextFatal ==
    \/ PopulateConsumersRouteNoFile
    \/ \E cols \in (SUBSET RouteColumns) \ {RouteColumns} :
         \E df \in Frames(RouteRows, cols) :
           PopulateConsumersRouteLacking(cols, df)
    \/ \E f \in ValidateFilters : ValidateConsumerAddressesNoFile(f)
    \/ \E cols \in (SUBSET ValidateColumns) \ {ValidateColumns} :
         \E df \in Frames(ValidateRows, cols), f \in ValidateFilters :
           ValidateConsumerAddressesLacking(cols, df, f)

SpecFatal == InitRoute /\ [][NextFatal]_vars

----------------------------------------------------------------------------
(* populate_lookups next to a concurrent reader: handle opens no           *)
(* transaction, so every get_or_create commits by itself and the store of  *)
(* every state is one a reader can see                                     *)

\* no invocation is running
Idle == IF last.cmd = "none" THEN TRUE ELSE ~last.running

\* Step 1: the CSV is read and the values are collected
BeginPopulateLookups(df) ==
    /\ Idle
    /\ runs < MaxRuns
    /\ last' = [cmd |-> "populate_lookups", csv |-> df, before |-> store,
                calls |-> LookupCalls(df), done |-> 0, running |-> TRUE,
                error |-> FALSE]
    /\ UNCHANGED store
    /\ runs' = runs + 1

\* populate_products: handle reads no input
BeginPopulateProducts ==
    /\ Idle
    /\ runs < MaxRuns
    /\ last' = [cmd |-> "populate_products", before |-> store,
                calls |-> ProductsCalls, done |-> 0, running |-> TRUE,
                error |-> FALSE, exit |-> ExitReturned]
    /\ UNCHANGED store
    /\ runs' = runs + 1

\* one get_or_create of either command: its own transaction, committed at
\* once
CommitCall ==
    /\ ~Idle
    /\ last.done < Len(last.calls)
    /\ store' = ApplyCall(store, last.calls[last.done + 1])
    /\ last' = [last EXCEPT !.done = @ + 1]
    /\ UNCHANGED runs

\* handle returns after the last call
ReturnFromLookups ==
    /\ ~Idle
    /\ last.done = Len(last.calls)
    /\ last' = [last EXCEPT !.running = FALSE]
    /\ UNCHANGED <<store, runs>>

\* a call raises (the database is gone, say): "except Exception" reports
\* the error and handle returns; what was committed stays
StopWithError ==
    /\ ~Idle
    /\ last.cmd = "populate_lookups"
    /\ last.done < Len(last.calls)
    /\ last' = [last EXCEPT !.running = FALSE, !.error = TRUE]
    /\ UNCHANGED <<store, runs>>

\* a call of populate_products raises, or one of the count() queries of the
\* summary that follows the last call in the same try: "except Exception"
\* reports the error and raises it again; what was committed stays
RaiseFromProducts ==
    /\ ~Idle
    /\ last.cmd = "populate_products"
    /\ last.done <= Len(last.calls)
    /\ last' = [last EXCEPT !.running = FALSE, !.error = TRUE,
                            !.exit = ExitRaised]
    /\ UNCHANGED <<store, runs>>

NextLookupsConcurrent ==
    \/ \E df \in LookupCsvs : BeginPopulateLookups(df)
    \/ BeginPopulateProducts
    \/ CommitCall
    \/ ReturnFromLookups
    \/ StopWithError
    \/ RaiseFromProducts

SpecLookupsConcurrent == InitLookups /\ [][NextLookupsConcurrent]_vars

----------------------------------------------------------------------------
(* populate_consumers_route beside another run of it *)

\* Steps 1 and 2 of a run, in its own transaction: the pre-fetch and the
\* loop, which write nothing
BeginPopulateConsumersRoute(df) ==
    /\ Idle
    /\ runs < MaxRuns
    /\ last' = [cmd |-> "populate_consumers_route", csv |-> df,
                before |-> store, run |-> RouteStage(store, df),
                running |-> TRUE, at_write |-> store, exit |-> ExitReturned]
    /\ runs' = runs + 1
    /\ UNCHANGED store

\* another process runs the whole command and commits while the run is
\* between its loop and its bulk insert
OtherRunCommits(df) ==
    /\ ~Idle
    /\ runs < MaxRuns
    /\ store' = AtomicReturn(store, RouteHandle(store, df))
    /\ runs' = runs + 1
    /\ UNCHANGED last

\* Step 3, the summary and the end of the transaction: the bulk insert runs
\* against the rows committed by now; its exception is caught and reported,
\* the summary is printed, handle returns and the transaction, marked for
\* rollback by the failed statement, is rolled back
FinishPopulateConsumersRoute ==
    /\ ~Idle
    /\ LET w == BulkCreate("ConsumerRouteAssignment", store.assignments,
                           last.run.assignments_to_create, BatchSize)
       IN /\ last' = [last EXCEPT
                          !.running = FALSE,
                          !.at_write = store,
                          !.exit = ExitReturned,
                          !.run.needs_rollback = ~w.ok,
                          !.run.created =
                              Len(last.run.assignments_to_create)]
          /\ store' = IF w.ok THEN [store EXCEPT !.assignments = w.table]
                      ELSE store
    /\ UNCHANGED runs

NextRouteConcurrent ==
    \/ \E df \in RouteCsvs : BeginPopulateConsumersRoute(df)
    \/ \E df \in RouteCsvs : OtherRunCommits(df)
    \/ FinishPopulateConsumersRoute

SpecRouteConcurrent == InitRoute /\ [][NextRouteConcurrent]_vars

----------------------------------------------------------------------------
(* populate_consumers on a CSV of two rows, one numeric cell of one varied *)

\* the numeric columns of the CSV
NumericFields == {"BlueBookNumber", "LPGId", "NoOfCylinder", "NoOfDpr"}

\* longest cell put in a numeric column
MaxNumericLen == 2

NumericChars == {"1", ".", "x", SuperscriptTwo}

NumericCells == UNION {[1..n -> NumericChars] : n \in 0..MaxNumericLen}

\* the row of consumer c1, with a new connection and a new product code,
\* whose cell of one numeric column is the given one
NumericRow(field, cell) ==
    ConsumerRow("c1", "s1", "p1", [PlainCells EXCEPT ![field] = cell])

\* a row of consumer c2 whose four numeric cells parse
WellFormedRow ==
    ConsumerRow("c2", "s2", "", [PlainCells EXCEPT !.LPGId = <<"9">>])

NextNumeric ==
    \/ \E field \in NumericFields, cell \in NumericCells :
         PopulateConsumers(<<NumericRow(field, cell), WellFormedRow>>)
    \/ \E field \in NumericFields, cell \in NumericCells :
         PopulateConsumers(<<WellFormedRow, NumericRow(field, cell)>>)

SpecNumeric == Init /\ [][NextNumeric]_vars

----------------------------------------------------------------------------
(* shared_bluebook, generate_bluebook_reports and process_areas *)

\* longest CSV of a Blue Book report, and the reports run in a behaviour
MaxBlueBookRows == 5
MaxReportRuns == 1

\* the consumer numbers of the CSV, in the order of their first appearance
BlueBookConsumers == <<"c1", "c2", "c3", "c4", "c5">>

BlueBookNumbers == {"", "b1", "b2"}

\* the dataframes of at most MaxBlueBookRows rows whose i-th row names one
\* of the first i consumers
BlueBookCsvs ==
    UNION {{df \in [1..n -> [ConsumerNumber : Range(BlueBookConsumers),
                             BlueBookNumber : BlueBookNumbers]] :
               \A i \in 1..n :
                   \E k \in 1..i : df[i].ConsumerNumber = BlueBookConsumers[k]}
           : n \in 0..MaxBlueBookRows}

\* unique_consumer_df[unique_consumer_df['BlueBookNumber'] != '']: the
\* indices of the first row of every consumer whose BlueBookNumber is not
\* blank
ConsumersWithBlueBook(df) ==
    {i \in DropDuplicates(df) : df[i].BlueBookNumber # ""}

\* the entries of a Series of counts from the count c down: the Blue Book
\* numbers that c of the rows idx hold; the order among numbers of one count
\* is that of an unstable sort
RECURSIVE CountsFrom(_, _, _)
CountsFrom(df, idx, c) ==
    IF c = 0 THEN <<>>
    ELSE LET numbers ==
                 {b \in {df[i].BlueBookNumber : i \in idx} :
                      Cardinality({i \in idx : df[i].BlueBookNumber = b}) = c}
         IN (IF numbers # {} THEN <<[count |-> c, numbers |-> numbers]>>
             ELSE <<>>) \o CountsFrom(df, idx, c - 1)

\* Series.value_counts(): the counts of the values, largest count first
ValueCounts(df, idx) == CountsFrom(df, idx, Cardinality(idx))

\* blue_book_counts[blue_book_counts > 1]
SharedCounts(counts) ==
    SelectIdx(counts, {k \in DOMAIN counts : counts[k].count > 1}, 1)

\* Series.sort_values(ascending=True) of a Series in descending order
SortValues(counts) ==
    [k \in DOMAIN counts |-> counts[Len(counts) + 1 - k]]

\* shared_bluebook: the Series printed, none when no number is shared
SharedBluebookReport(df) ==
    SharedCounts(ValueCounts(df, ConsumersWithBlueBook(df)))

\* generate_bluebook_reports: the groups of the report file in the order
\* written, every number with the consumers of its group_df in row order
BluebookReportFile(df) ==
    LET consumers_with_blue_book == ConsumersWithBlueBook(df)
        sorted_shared_blue_books ==
            SortValues(SharedCounts(ValueCounts(df, consumers_with_blue_book)))
    IN [k \in DOMAIN sorted_shared_blue_books |->
           [count |-> sorted_shared_blue_books[k].count,
            numbers |-> sorted_shared_blue_books[k].numbers,
            groups |->
                {[blue_book_num |-> b,
                  consumers |->
                      LET group_df == {i \in consumers_with_blue_book :
                                           df[i].BlueBookNumber = b}
                          rows == SelectIdx(df, group_df, 1)
                      IN [i \in DOMAIN rows |-> rows[i].ConsumerNumber]] :
                     b \in sorted_shared_blue_books[k].numbers}]]

SharedBluebook ==
    /\ runs < MaxReportRuns
    /\ \E df \in BlueBookCsvs :
           last' = [cmd |-> "shared_bluebook", csv |-> df,
                    report |-> SharedBluebookReport(df)]
    /\ UNCHANGED store
    /\ runs' = runs + 1

GenerateBluebookReports ==
    /\ runs < MaxReportRuns
    /\ \E df \in BlueBookCsvs :
           last' = [cmd |-> "generate_bluebook_reports", csv |-> df,
                    written |-> BluebookReportFile(df) # <<>>,
                    report |-> BluebookReportFile(df)]
    /\ UNCHANGED store
    /\ runs' = runs + 1

\* longest CSV of process_areas
MaxAreaRows == 3

\* the code points of the characters of the AreaId and AreaCodeDesc cells
CodePoint(ch) ==
    CASE ch = " " -> 32 [] ch = "0" -> 48 [] ch = "1" -> 49 [] ch = "9" -> 57
      [] ch = "A" -> 65 [] ch = "B" -> 66

\* a < b for two strings
RECURSIVE StrLess(_, _)
StrLess(a, b) ==
    IF Len(b) = 0 THEN FALSE
    ELSE IF Len(a) = 0 THEN TRUE
    ELSE IF Head(a) # Head(b) THEN CodePoint(Head(a)) < CodePoint(Head(b))
    ELSE StrLess(Tail(a), Tail(b))

\* sorted() of a set of strings
RECURSIVE Sorted(_)
Sorted(S) ==
    IF S = {} THEN <<>>
    ELSE LET least == CHOOSE a \in S : \A b \in S \ {a} : StrLess(a, b)
         IN <<least>> \o Sorted(S \ {least})

\* the cells: blank, "9", "10" and " 9"; blank, "A", "B" and "B "
AreaIds == {<<>>, <<"9">>, <<"1", "0">>, <<" ", "9">>}

AreaCodeDescCells == {<<>>, <<"A">>, <<"B">>, <<"B", " ">>}

AreaCsvs ==
    UNION {[1..n -> [AreaId : AreaIds, AreaCodeDesc : AreaCodeDescCells]] :
              n \in 0..MaxAreaRows}

\* the rows process_csv keeps: neither cell blank once stripped
AreaRowsKept(df) ==
    {i \in DOMAIN df :
        Strip(df[i].AreaId) # <<>> /\ Strip(df[i].AreaCodeDesc) # <<>>}

\* Command.process_csv: the descriptions in sorted order, each with the
\* sorted list of its distinct area ids
ProcessCsv(df) ==
    LET kept == AreaRowsKept(df)
        keys == Sorted({Strip(df[i].AreaCodeDesc) : i \in kept})
    IN [k \in DOMAIN keys |->
           [area_desc |-> keys[k],
            area_ids |->
                Sorted({Strip(df[i].AreaId) :
                           i \in {j \in kept :
                                     Strip(df[j].AreaCodeDesc) = keys[k]}})]]

\* Command.display_summary: max() and min() over the items of areas_dict
\* raise ValueError when the dict is empty
DisplaySummaryRaises(areas_dict) == Len(areas_dict) = 0

\* Command.handle: the report is displayed, then the summary; an exception
\* of the summary leaves handle as CommandError
ProcessAreas ==
    /\ runs < MaxReportRuns
    /\ \E df \in AreaCsvs :
           last' = [cmd |-> "process_areas", csv |-> df,
                    row_count |-> Cardinality(AreaRowsKept(df)),
                    report |-> ProcessCsv(df),
                    summary |-> ~DisplaySummaryRaises(ProcessCsv(df)),
                    exit |-> IF DisplaySummaryRaises(ProcessCsv(df))
                             THEN ExitRaised ELSE ExitReturned]
    /\ UNCHANGED store
    /\ runs' = runs + 1

NextReports ==
    \/ SharedBluebook
    \/ GenerateBluebookReports
    \/ ProcessAreas

SpecReports == Init /\ [][NextReports]_vars

----------------------------------------------------------------------------
(* The consumers API beside populate_consumers *)

\* the values a request carries: a number the store holds and a new one;
\* no LPG id, the id 0, an id the store holds and a new one
ApiNumbers == {"c1", "c3"}

ApiLpgIds == {NoInt, <<<<"0">>>>, <<<<"7">>>>, <<<<"9">>>>}

\* the fields a request body holds: PUT and POST carry both, PATCH any
ApiFieldSets == {{"consumer_number", "lpg_id"}, {"consumer_number"}, {"lpg_id"}}

\* POST /consumers/, PUT, PATCH and DELETE /consumers/{pk}/ and PATCH
\* /consumers/{pk}/update_kyc_status/ on a consumer of the seeded store;
\* pk 0: no instance; fields: the keys of the request body
ApiRequests ==
    [action : {"create"}, pk : {0},
     fields : {{"consumer_number", "lpg_id"}},
     consumer_number : ApiNumbers, lpg_id : ApiLpgIds, is_kyc_done : {FALSE}]
      \cup [action : {"update"}, pk : {1, 2},
            fields : {{"consumer_number", "lpg_id"}},
            consumer_number : ApiNumbers, lpg_id : ApiLpgIds,
            is_kyc_done : {FALSE}]
      \cup [action : {"partial_update"}, pk : {1, 2},
            fields : {{"consumer_number"}, {"lpg_id"}},
            consumer_number : ApiNumbers, lpg_id : ApiLpgIds,
            is_kyc_done : {FALSE}]
      \cup [action : {"destroy"}, pk : {1, 2}, fields : {{}},
            consumer_number : {""}, lpg_id : {NoInt}, is_kyc_done : {FALSE}]
      \cup [action : {"update_kyc_status"}, pk : {1, 2},
            fields : {{}, {"is_kyc_done"}},
            consumer_number : {""}, lpg_id : {NoInt}, is_kyc_done : BOOLEAN]

\* a primary key is never given out twice: the place of a deleted Consumer
\* stays taken by a row that carries no consumer
Deleted == "(deleted)"

DeletedRow ==
    [consumer_number |-> Deleted, lpg_id |-> NoInt, blue_book |-> NoInt,
     is_kyc_done |-> FALSE, category |-> None, consumer_type |-> None]

\* the table holds a Consumer under pk
RowPresent(db, pk) ==
    IF pk \in DOMAIN db.consumers
    THEN db.consumers[pk].consumer_number # Deleted ELSE FALSE

\* the CSVs imported beside the requests: one row of a consumer with a new
\* connection, and the two rows of a new consumer and of a consumer the
\* store holds, each with a new connection
ApiCsvs ==
    {<<ConsumerRow(c, "s3", "", [PlainCells EXCEPT !.LPGId = cell])>> :
        c \in ApiNumbers, cell \in {<<>>, <<"7">>, <<"9">>}}
      \cup {<<ConsumerRow("c3", "s3", "", PlainCells),
              ConsumerRow("c1", "s4", "", PlainCells)>>}

\* Consumer.objects[.exclude(pk=instance.pk)].filter(field=value).exists()
\* (pk 0: no instance, nothing excluded)
OtherExists(db, pk, field, value) ==
    \E i \in DOMAIN db.consumers : i # pk /\ db.consumers[i][field] = value

\* ConsumerCreateUpdateSerializer.validate_consumer_number: value accepted
validate_consumer_number(db, pk, value) ==
    ~OtherExists(db, pk, "consumer_number", value)

\* ConsumerCreateUpdateSerializer.validate_lpg_id: value accepted; None and
\* 0 are falsy and not looked up
validate_lpg_id(db, pk, value) ==
    IF value # NoInt /\ value # <<<<"0">>>>
    THEN ~OtherExists(db, pk, "lpg_id", value)
    ELSE TRUE

\* the UniqueValidator a ModelSerializer puts on a unique field; it is not
\* run for None
UniqueValidator(db, pk, field, value) ==
    IF value = NoInt THEN TRUE ELSE ~OtherExists(db, pk, field, value)

\* the queries serializer.is_valid() sends for a request, in the order of
\* Meta.fields: for each field the UniqueValidator, then validate_<field>.
\* The UniqueValidator is not run for None, and validate_lpg_id looks
\* nothing up for None and 0.
QueriesOf(req) ==
    (IF "consumer_number" \in req.fields
     THEN <<"unique_consumer_number", "validate_consumer_number">>
     ELSE <<>>)
      \o (IF "lpg_id" \in req.fields /\ req.lpg_id # NoInt
          THEN <<"unique_lpg_id">> ELSE <<>>)
      \o (IF /\ "lpg_id" \in req.fields
             /\ req.lpg_id # NoInt /\ req.lpg_id # <<<<"0">>>>
          THEN <<"validate_lpg_id">> ELSE <<>>)

\* one query of is_valid() on the rows it can read: the value is accepted
QueryPasses(db, req, query) ==
    CASE query = "unique_consumer_number" ->
           ~OtherExists(db, req.pk, "consumer_number", req.consumer_number)
      [] query = "validate_consumer_number" ->
           validate_consumer_number(db, req.pk, req.consumer_number)
      [] query = "unique_lpg_id" ->
           UniqueValidator(db, req.pk, "lpg_id", req.lpg_id)
      [] query = "validate_lpg_id" ->
           validate_lpg_id(db, req.pk, req.lpg_id)

\* the row save() writes: for an update the instance get_object() returned,
\* with the fields of the request set on it; every column is written
SavedRow(req, instance) ==
    IF req.action = "create"
    THEN [consumer_number |-> req.consumer_number, lpg_id |-> req.lpg_id,
          blue_book |-> NoInt, is_kyc_done |-> FALSE,
          category |-> "General", consumer_type |-> "Domestic"]
    ELSE [instance EXCEPT
            !.consumer_number = IF "consumer_number" \in req.fields
                                THEN req.consumer_number ELSE @,
            !.lpg_id = IF "lpg_id" \in req.fields THEN req.lpg_id ELSE @,
            !.is_kyc_done = IF "is_kyc_done" \in req.fields
                            THEN req.is_kyc_done ELSE @]

\* an UPDATE of a Consumer that checks no constraint
ConsumerUpdateUnchecked(table, pk, c) == TRUE

\* the unique constraints of Consumer on an UPDATE of the row pk
ConsumerUpdateOk(table, pk, c) ==
    /\ \A i \in DOMAIN table :
           i # pk => table[i].consumer_number # c.consumer_number
    /\ c.lpg_id # NoInt =>
           \A i \in DOMAIN table : i # pk => table[i].lpg_id # c.lpg_id

\* the rows of a table that do not belong to the consumer pk
Without(table, field, pk) ==
    SelectIdx(table, {i \in DOMAIN table : table[i][field] # pk}, 1)

\* the consumer pk owns a connection
HasConnections(db, pk) ==
    \E i \in DOMAIN db.connections : db.connections[i].consumer_id = pk

\* instance.delete(): the Consumer goes with its route assignment
\* (on_delete=CASCADE), its addresses and contacts (GenericRelation) and
\* its connections
Delete(db, pk) ==
    IF ~RowPresent(db, pk) THEN db
    ELSE [db EXCEPT
            !.consumers[pk] = DeletedRow,
            !.assignments = Without(@, "consumer", pk),
            !.addresses = Without(@, "object_id", pk),
            !.contacts = Without(@, "object_id", pk),
            !.connections = Without(@, "consumer_id", pk)]

\* serializer.save(), consumer.save() or instance.delete(). save() of an
\* instance is an UPDATE of the row pk and, when the row is gone, an INSERT
\* under pk; IntegrityError when the database refuses it. refused: the
\* connections of the consumer keep the DELETE from going through
Save(db, req, instance, refused) ==
    IF req.action = "destroy"
    THEN [ok |-> ~refused, db |-> IF refused THEN db ELSE Delete(db, req.pk)]
    ELSE
    LET c == SavedRow(req, instance)
        ok == IF req.action = "create"
              THEN ConsumerInsertOk(db.consumers, c)
              ELSE ConsumerUpdateOk(db.consumers, req.pk, c)
    IN [ok |-> ok,
        db |-> IF ~ok THEN db
               ELSE IF req.action = "create"
               THEN [db EXCEPT !.consumers = Append(@, c)]
               ELSE [db EXCEPT !.consumers[req.pk] = c]]

\* READ COMMITTED: what a transaction other than the import reads. The rows
\* the import has inserted and not committed are not there; when the import
\* is rolled back they are gone for good and their primary keys stay used
Visible(db, pending) ==
    [db EXCEPT !.consumers =
        [i \in DOMAIN db.consumers |->
            IF i \in pending THEN DeletedRow ELSE db.consumers[i]]]

\* the INSERT or UPDATE of a request waits for the import to end: its row
\* takes a consumer_number or an lpg_id of a row the import has inserted and
\* not committed
WaitsForImport(db, pending, req, instance) ==
    IF req.action = "destroy" THEN FALSE
    ELSE \E i \in pending :
             \/ db.consumers[i].consumer_number
                    = SavedRow(req, instance).consumer_number
             \/ /\ SavedRow(req, instance).lpg_id # NoInt
                /\ db.consumers[i].lpg_id = SavedRow(req, instance).lpg_id

\* Step 2 raises ValueError for a row it stages
Step2Raises(pre, df) ==
    \E i \in DropDuplicates(df) :
        /\ df[i].ConsumerNumber \notin pre.existing_consumer_nums
        /\ NewConsumerRaises(df[i])

\* handle under READ COMMITTED: Steps 1 and 2 read the store as it was when
\* the run began (before), Steps 3 to 6 write to the store as it is when
\* they run (db)
Step3From(before, db, df) ==
    LET staged == Step3(before, df)
        w == BulkCreate("Consumer", db.consumers, staged.consumers_to_create,
                        BatchSize)
    IN [staged EXCEPT !.ok = ~Step2Raises(staged.pre, df) /\ w.ok,
                      !.db = [db EXCEPT !.consumers = w.table],
                      !.log = Times(w.writes, "Consumer")]

HandleFrom(before, db, df) ==
    CHOOSE run \in {Step6(Step5(st, df, 1), df) :
                       st \in {Step3From(before, db, df)}} : TRUE

\* Steps 5 and 6 on the consumer_map of Step 4 (run.db.consumers) and the
\* other tables as they are now
RestFrom(run, db, df) ==
    CHOOSE r \in {Step6(Step5(st, df, 1), df) :
                     st \in {[run EXCEPT !.db =
                                [db EXCEPT !.consumers = run.db.consumers]]}}
        : TRUE

\* the foreign key of every connection the run wrote names a Consumer the
\* table holds
ConnectionsHaveConsumer(db, run) ==
    \A i \in DOMAIN run.connections_to_create :
        RowPresent(db, run.connections_to_create[i].consumer_id)

\* checked: the queries of is_valid() sent so far
NoRequest ==
    [phase |-> "idle", outcome |-> "none",
     req |-> [action |-> "none", pk |-> 0, fields |-> {},
              consumer_number |-> "", lpg_id |-> NoInt,
              is_kyc_done |-> FALSE],
     instance |-> DeletedRow, checked |-> 0]

\* pending: the primary keys of the Consumers the import has inserted and
\* not committed
NoImport ==
    [phase |-> "idle", csv |-> <<>>, before |-> EmptyStore, pending |-> {},
     run |-> [ok |-> TRUE]]

InitApi ==
    /\ store = SeededStore
    /\ last = [cmd |-> "consumers_api", requests |-> <<NoRequest, NoRequest>>,
               import |-> NoImport]
    /\ runs = 0

\* a request arrives at a free worker k. get_object() reads the instance:
\* 404 when there is none. destroy and update_kyc_status run no serializer;
\* update_kyc_status answers 400 when the body holds no is_kyc_done. A
\* request whose is_valid() sends no query is validated in memory
ReceiveRequest(k, req) ==
    /\ runs < MaxRuns
    /\ last.requests[k].phase = "idle"
    /\ last' = [last EXCEPT !.requests[k] =
                   IF req.pk # 0
                        /\ ~RowPresent(Visible(store, last.import.pending),
                                       req.pk)
                   THEN [phase |-> "done", outcome |-> "404", req |-> req,
                         instance |-> DeletedRow, checked |-> 0]
                   ELSE IF req.action = "update_kyc_status"
                           /\ "is_kyc_done" \notin req.fields
                   THEN [phase |-> "done", outcome |-> "400", req |-> req,
                         instance |-> store.consumers[req.pk],
                         checked |-> 0]
                   ELSE [phase |-> IF Len(QueriesOf(req)) = 0
                                   THEN "validated" ELSE "received",
                         outcome |-> "none", req |-> req,
                         instance |-> IF req.pk = 0 THEN DeletedRow
                                      ELSE store.consumers[req.pk],
                         checked |-> 0]]
    /\ runs' = runs + 1
    /\ UNCHANGED store

\* is_valid() sends its next query, on the rows committed by now. A value
\* refused makes the answer 400 whatever the queries after it find; after
\* the last query the request is validated
ValidateRequest(k) ==
    /\ last.requests[k].phase = "received"
    /\ last' = [last EXCEPT !.requests[k] =
                   IF ~QueryPasses(Visible(store, last.import.pending),
                                   last.requests[k].req,
                                   QueriesOf(last.requests[k].req)
                                       [last.requests[k].checked + 1])
                   THEN [@ EXCEPT !.phase = "done", !.outcome = "400",
                                  !.checked = @ + 1]
                   ELSE IF last.requests[k].checked + 1
                              = Len(QueriesOf(last.requests[k].req))
                   THEN [@ EXCEPT !.phase = "validated", !.checked = @ + 1]
                   ELSE [@ EXCEPT !.checked = @ + 1]]
    /\ UNCHANGED <<store, runs>>

\* the view saves the validated request or deletes the instance: 500 on
\* IntegrityError; a DELETE of a consumer with connections goes through or
\* is refused, as the foreign key of the connections has it. A write that
\* meets an uncommitted row of the import waits
SaveRequest(k) ==
    /\ last.requests[k].phase = "validated"
    /\ ~WaitsForImport(store, last.import.pending, last.requests[k].req,
                       last.requests[k].instance)
    /\ \E refused \in IF /\ last.requests[k].req.action = "destroy"
                          /\ HasConnections(store, last.requests[k].req.pk)
                          /\ RowPresent(store, last.requests[k].req.pk)
                       THEN BOOLEAN ELSE {FALSE} :
          /\ last' = [last EXCEPT !.requests[k] =
                         [@ EXCEPT
                            !.phase = "done",
                            !.outcome =
                                IF Save(store, last.requests[k].req,
                                        last.requests[k].instance, refused).ok
                                THEN IF last.requests[k].req.action = "destroy"
                                     THEN "deleted" ELSE "saved"
                                ELSE "500"]]
          /\ store' = Save(store, last.requests[k].req,
                           last.requests[k].instance, refused).db
    /\ UNCHANGED runs

\* populate_consumers begins: Step 1 up to the query of the consumer
\* numbers (l.28-36)
BeginPopulateConsumers(df) ==
    /\ runs < MaxRuns
    /\ last.import.phase = "idle"
    /\ last' = [last EXCEPT !.import =
                   [phase |-> "begun", csv |-> df, before |-> store,
                    pending |-> {}, run |-> [ok |-> TRUE]]]
    /\ runs' = runs + 1
    /\ UNCHANGED store

\* the queries of the sv_numbers and the product codes (l.37-38), on the
\* rows committed by now; Step 2 works in memory
PrefetchConnections ==
    /\ last.import.phase = "begun"
    /\ last' = [last EXCEPT !.import =
                   [@ EXCEPT !.phase = "staged",
                             !.before = [@ EXCEPT
                                           !.connections = store.connections,
                                           !.variants = store.variants]]]
    /\ UNCHANGED <<store, runs>>

\* Step 3 (l.68): the INSERT of the consumers staged, checked against the
\* rows committed by now. IntegrityError leaves handle: the transaction is
\* rolled back. The rows inserted stay uncommitted
InsertConsumers ==
    /\ last.import.phase = "staged"
    /\ \E st \in {Step3From(last.import.before, store, last.import.csv)} :
          /\ last' = [last EXCEPT !.import =
                         [@ EXCEPT
                            !.phase = IF st.ok THEN "inserted" ELSE "done",
                            !.pending = IF st.ok
                                        THEN (Len(store.consumers) + 1)
                                                 ..Len(st.db.consumers)
                                        ELSE {},
                            !.run = st]]
          /\ store' = IF st.ok
                      THEN [store EXCEPT !.consumers = st.db.consumers]
                      ELSE store
    /\ UNCHANGED runs

\* Step 4 (l.72): consumer_map, the rows committed by now and the rows of
\* this run
FetchConsumers ==
    /\ last.import.phase = "inserted"
    /\ last' = [last EXCEPT !.import =
                   [@ EXCEPT !.phase = "fetched",
                             !.run = [@ EXCEPT !.db = [@ EXCEPT !.consumers =
                                                        store.consumers]]]]
    /\ UNCHANGED <<store, runs>>

\* Steps 5 and 6 (l.84-130) and the COMMIT. A connection of a consumer
\* that another transaction has deleted since Step 4 breaks its foreign
\* key: IntegrityError, the import is rolled back. (A DELETE that comes
\* after the INSERT of l.130 and before the COMMIT either waits for the
\* COMMIT or makes the COMMIT fail: the two outcomes this step and a
\* SaveRequest give in either order.)
FinishPopulateConsumers ==
    /\ last.import.phase = "fetched"
    /\ \E r \in {RestFrom(last.import.run, store, last.import.csv)} :
          /\ last' = [last EXCEPT !.import =
                         [@ EXCEPT
                            !.phase = "done",
                            !.pending = {},
                            !.run = [r EXCEPT
                                       !.ok = r.ok /\ ConnectionsHaveConsumer(
                                                          store, r),
                                       !.db = [@ EXCEPT !.consumers =
                                                 store.consumers]]]]
          /\ store' = IF last'.import.run.ok THEN last'.import.run.db
                      ELSE Visible(store, last.import.pending)
    /\ UNCHANGED runs

NextApi ==
    \/ \E k \in {1, 2}, req \in ApiRequests : ReceiveRequest(k, req)
    \/ \E k \in {1, 2} : ValidateRequest(k)
    \/ \E k \in {1, 2} : SaveRequest(k)
    \/ \E df \in ApiCsvs : BeginPopulateConsumers(df)
    \/ PrefetchConnections
    \/ InsertConsumers
    \/ FetchConsumers
    \/ FinishPopulateConsumers

SpecApi == InitApi /\ [][NextApi]_vars

----------------------------------------------------------------------------
(* populate_routes *)

\* longest CSV of populate_routes
MaxRouteRows == 3

\* the store of the command: the Route and RouteArea tables, a row's id
\* being its index
EmptyRoutes == [routes |-> <<>>, route_areas |-> <<>>]

\* the rows of the CSV: AREA CODE blank, "A" or "B " and AREA NAME blank or
\* "x"; raises tells whether the database raises on the Route lookup of the
\* row
PlainRouteRows ==
    [area_code : {<<>>, <<"A">>, <<"B", " ">>}, area_name : {<<>>, <<"x">>},
     raises : {FALSE}]

FailingRouteRows ==
    [area_code : {<<"A">>, <<"B", " ">>}, area_name : {<<"x">>},
     raises : {TRUE}]

RoutesCsvs ==
    UNION {[1..n -> PlainRouteRows \cup FailingRouteRows] :
              n \in 0..MaxRouteRows}

\* id of the Route with this area_code, 0 when there is none
RouteId(db, area_code) ==
    IF \E i \in DOMAIN db.routes : db.routes[i].area_code = area_code
    THEN CHOOSE i \in DOMAIN db.routes : db.routes[i].area_code = area_code
    ELSE 0

\* Route.objects.get_or_create(area_code=area_code,
\*     defaults={'area_code_description': area_code})
GetOrCreateRoute(db, area_code) ==
    IF RouteId(db, area_code) # 0
    THEN [db |-> db, obj |-> RouteId(db, area_code), created |-> FALSE]
    ELSE [db |-> [db EXCEPT !.routes =
                     Append(@, [area_code |-> area_code,
                                area_code_description |-> area_code])],
          obj |-> Len(db.routes) + 1, created |-> TRUE]

\* a get_or_create that never finds the area
GetOrCreateAreaAlwaysCreates(db, route, area_name) ==
    [db |-> [db EXCEPT !.route_areas =
                Append(@, [route |-> route, area_name |-> area_name])],
     created |-> TRUE]

\* RouteArea.objects.get_or_create(route=current_route_obj,
\*     area_name=area_name)
GetOrCreateArea(db, route, area_name) ==
    IF \E i \in DOMAIN db.route_areas :
           db.route_areas[i] = [route |-> route, area_name |-> area_name]
    THEN [db |-> db, created |-> FALSE]
    ELSE [db |-> [db EXCEPT !.route_areas =
                     Append(@, [route |-> route, area_name |-> area_name])],
          created |-> TRUE]

\* a Route part that keeps the carried route when the lookup raises
RoutesRowRouteKeepsRoute(st, row) ==
    LET area_code == Strip(row.area_code)
        got == GetOrCreateRoute(st.db, area_code)
    IN IF area_code = <<>> THEN [st EXCEPT !.skip_row = FALSE]
       ELSE IF row.raises
       THEN [st EXCEPT !.skip_row = TRUE,
                       !.log = Append(@, [out |-> "error", route |-> 0])]
       ELSE [st EXCEPT
               !.skip_row = FALSE,
               !.db = got.db,
               !.current_route_obj = got.obj,
               !.created_routes = IF got.created THEN @ + 1 ELSE @,
               !.found_routes = IF got.created THEN @ ELSE @ + 1]

\* the body of the loop for one row, "Handle Route": the get_or_create of
\* the Route of a non-blank AREA CODE; when it raises the carried route is
\* dropped and the loop goes to the next row (skip_row). log records, per
\* row, the error or warning written or the route an area was looked up
\* under
RoutesRowRoute(st, row) ==
    LET area_code == Strip(row.area_code)
        got == GetOrCreateRoute(st.db, area_code)
    IN IF area_code = <<>> THEN [st EXCEPT !.skip_row = FALSE]
       ELSE IF row.raises
       THEN [st EXCEPT !.skip_row = TRUE,
                       !.current_route_obj = 0,
                       !.log = Append(@, [out |-> "error", route |-> 0])]
       ELSE [st EXCEPT
               !.skip_row = FALSE,
               !.db = got.db,
               !.current_route_obj = got.obj,
               !.created_routes = IF got.created THEN @ + 1 ELSE @,
               !.found_routes = IF got.created THEN @ ELSE @ + 1]

\* the body of the loop for one row, "Handle RouteArea": the get_or_create
\* of the area under the carried route, or the warning
RoutesRowArea(st, row) ==
    LET area_name == Strip(row.area_name)
        area == GetOrCreateArea(st.db, st.current_route_obj, area_name)
    IN IF area_name # <<>> /\ st.current_route_obj # 0
       THEN [st EXCEPT
               !.db = area.db,
               !.created_areas = IF area.created THEN @ + 1 ELSE @,
               !.log = Append(@, [out |-> "area",
                                  route |-> st.current_route_obj])]
       ELSE IF area_name # <<>>
       THEN [st EXCEPT !.log = Append(@, [out |-> "warning", route |-> 0])]
       ELSE [st EXCEPT !.log = Append(@, [out |-> "", route |-> 0])]

\* the body of the loop for one row
RoutesRow(st, row) ==
    CHOOSE s \in {IF r.skip_row THEN r ELSE RoutesRowArea(r, row) :
                     r \in {RoutesRowRoute(st, row)}} : TRUE

RECURSIVE RoutesLoop(_, _, _)
RoutesLoop(st, df, i) ==
    IF i > Len(df) THEN st
    ELSE CHOOSE s \in {RoutesLoop(r, df, i + 1) : r \in {RoutesRow(st, df[i])}} :
             TRUE

\* the state of handle before the loop
RoutesStart(db) ==
    [db |-> db, current_route_obj |-> 0, created_routes |-> 0,
     found_routes |-> 0, created_areas |-> 0, log |-> <<>>,
     skip_row |-> FALSE]

\* Command.handle as a whole, when nothing else writes meanwhile
RoutesHandle(db, df) == RoutesLoop(RoutesStart(db), df, 1)

InitRoutes ==
    /\ store = EmptyRoutes
    /\ last = NoRun
    /\ runs = 0

\* handle opens no transaction: every get_or_create commits by itself, and
\* the store of every state is one a concurrent reader can see.
\* The CSV is read and the loop begins
BeginPopulateRoutes(df) ==
    /\ Idle
    /\ runs < MaxRuns
    /\ last' = [cmd |-> "populate_routes", csv |-> df, before |-> store,
                run |-> RoutesStart(store), row |-> 1, part |-> "route",
                running |-> TRUE]
    /\ runs' = runs + 1
    /\ UNCHANGED store

\* the Route part of the row the loop is at
RoutesRouteStep ==
    /\ ~Idle
    /\ last.part = "route"
    /\ last.row <= Len(last.csv)
    /\ \E r \in {RoutesRowRoute([last.run EXCEPT !.db = store],
                                last.csv[last.row])} :
          /\ last' = [last EXCEPT
                         !.run = r,
                         !.part = IF r.skip_row THEN "route" ELSE "area",
                         !.row = IF r.skip_row THEN @ + 1 ELSE @]
          /\ store' = r.db
    /\ UNCHANGED runs

\* the RouteArea part of the row the loop is at
RoutesAreaStep ==
    /\ ~Idle
    /\ last.part = "area"
    /\ \E r \in {RoutesRowArea([last.run EXCEPT !.db = store],
                               last.csv[last.row])} :
          /\ last' = [last EXCEPT !.run = r, !.part = "route", !.row = @ + 1]
          /\ store' = r.db
    /\ UNCHANGED runs

\* the loop is over: the summary is printed and handle returns
ReturnFromRoutes ==
    /\ ~Idle
    /\ last.part = "route"
    /\ last.row > Len(last.csv)
    /\ last' = [last EXCEPT !.running = FALSE]
    /\ UNCHANGED <<store, runs>>

NextRoutes ==
    \/ \E df \in RoutesCsvs : BeginPopulateRoutes(df)
    \/ RoutesRouteStep
    \/ RoutesAreaStep
    \/ ReturnFromRoutes

SpecRoutes == InitRoutes /\ [][NextRoutes]_vars

----------------------------------------------------------------------------
(* The product variants API *)

\* the requests and imports of a behaviour (one populate_products run goes
\* beside them)
MaxRequests == 2

VariantProducts == {"LPG Cylinder", "Appliance"}
VariantNames == {ProductVariantData[1].name, <<"n", "1">>}
VariantCodes == {"LPG-DOM-14.2", "p1"}

\* a request body: fields names the fields it holds, a field it does not
\* hold is blank
VariantData(fields) ==
    [fields : {fields},
     product_code : IF "product_code" \in fields THEN VariantCodes ELSE {""},
     name : IF "name" \in fields THEN VariantNames ELSE {<<>>},
     product : IF "product" \in fields THEN VariantProducts ELSE {""}]

\* POST and PUT carry every field, PATCH the code, the name, or the name
\* and the product; pk 0: no instance
VariantRequests ==
    {[action |-> "create", pk |-> 0, data |-> d] :
        d \in VariantData({"product_code", "name", "product"})}
      \cup {[action |-> "update", pk |-> pk, data |-> d] :
              pk \in {1, 2},
              d \in VariantData({"product_code", "name", "product"})}
      \cup {[action |-> "partial_update", pk |-> pk, data |-> d] :
              pk \in {1, 2},
              d \in UNION {VariantData(fields) :
                              fields \in {{"product_code"}, {"name"},
                                          {"name", "product"}}}}

\* data.get(key): <<value>> for a field the request holds, <<>> (None) for
\* a field it does not hold
DataGet(data, key) == IF key \in data.fields THEN <<data[key]>> ELSE <<>>

\* ProductVariantCreateUpdateSerializer.validate_product_code: value accepted
validate_product_code(db, pk, value) ==
    ~\E i \in DOMAIN db.variants :
         i # pk /\ db.variants[i].product_code = value

\* ProductVariantCreateUpdateSerializer.validate: data accepted
validate(db, pk, data) ==
    LET product == DataGet(data, "product")
        name == DataGet(data, "name")
    IN IF product # <<>> /\ name # <<>>
       THEN ~\E i \in DOMAIN db.variants :
                 /\ i # pk
                 /\ db.variants[i].product = product[1]
                 /\ db.variants[i].name = name[1]
       ELSE TRUE

\* no instance
NoVariant ==
    [product_code |-> "", name |-> <<>>, product |-> "", unit |-> "",
     size |-> Float(<<"0">>), variant_type |-> ""]

\* the row serializer.save() writes: for an update the instance
\* get_object() returned, with the fields of the request set on it, every
\* column written; a create carries unit, size and variant_type too
VariantSaved(req, instance) ==
    LET old == IF req.action = "create"
               THEN [NoVariant EXCEPT !.unit = "kg", !.size = Float(<<"1">>),
                                      !.variant_type = "DOMESTIC"]
               ELSE instance
    IN [old EXCEPT
          !.product_code = IF "product_code" \in req.data.fields
                           THEN req.data.product_code ELSE @,
          !.name = IF "name" \in req.data.fields THEN req.data.name ELSE @,
          !.product = IF "product" \in req.data.fields
                      THEN req.data.product ELSE @]

\* serializer.save(): the INSERT or UPDATE, which the unique product_code
\* refuses with IntegrityError (500)
VariantWrite(db, req, instance) ==
    IF \E i \in DOMAIN db.variants :
           /\ i # req.pk
           /\ db.variants[i].product_code
                  = VariantSaved(req, instance).product_code
    THEN [status |-> "500", db |-> db]
    ELSE IF req.action = "create"
    THEN [status |-> "201",
          db |-> [db EXCEPT !.variants =
                     Append(@, VariantSaved(req, instance))]]
    ELSE [status |-> "200",
          db |-> [db EXCEPT !.variants[req.pk] =
                     VariantSaved(req, instance)]]

NoVariantRequest ==
    [phase |-> "idle", status |-> "none",
     req |-> [action |-> "none", pk |-> 0,
              data |-> [fields |-> {}, product_code |-> "", name |-> <<>>,
                        product |-> ""]],
     instance |-> NoVariant]

\* the CSVs imported beside the requests: one row of a new consumer whose
\* ProdCode the catalogue of populate_products holds, or does not hold
VariantCsvs ==
    {<<ConsumerRow("c1", "s1", code, PlainCells)>> :
        code \in {"LPG-DOM-14.2", "p1"}}

\* the store populate_consumers works on, as far as the variants go: the
\* registries filled, no consumer
ImportStore(db) == [EmptyStore EXCEPT !.variants = db.variants]

\* the store after populate_lookups: "LPG Cylinder", "Appliance" and the
\* three units, no variant
InitVariants ==
    /\ store = LookupsHandle(EmptyLookups, <<>>)
    /\ last = [cmd |-> "variants_api",
               requests |-> <<NoVariantRequest, NoVariantRequest>>,
               products_done |-> 0,
               import |-> NoImport]
    /\ runs = 0

\* a request arrives at a free worker k; get_object() reads the instance:
\* 404 for a pk the store lacks
VariantReceive(k, req) ==
    /\ runs < MaxRequests
    /\ last.requests[k].phase = "idle"
    /\ last' = [last EXCEPT !.requests[k] =
                   IF req.pk # 0 /\ req.pk \notin DOMAIN store.variants
                   THEN [phase |-> "done", status |-> "404", req |-> req,
                         instance |-> NoVariant]
                   ELSE [phase |-> "received", status |-> "none",
                         req |-> req,
                         instance |-> IF req.pk = 0 THEN NoVariant
                                      ELSE store.variants[req.pk]]]
    /\ runs' = runs + 1
    /\ UNCHANGED store

\* serializer.is_valid(), first query: validate_product_code on the store
\* as it is now; 400 when it rejects, and validate is not called then
VariantValidateCode(k) ==
    /\ last.requests[k].phase = "received"
    /\ "product_code" \in last.requests[k].req.data.fields
    /\ last' = [last EXCEPT !.requests[k] =
                   IF validate_product_code(
                          store, last.requests[k].req.pk,
                          last.requests[k].req.data.product_code)
                   THEN [@ EXCEPT !.phase = "checked"]
                   ELSE [@ EXCEPT !.phase = "done", !.status = "400"]]
    /\ UNCHANGED <<store, runs>>

\* serializer.is_valid(), second query: validate on the store as it is now,
\* after the field validators (of a request without product_code none
\* reads the store)
VariantValidate(k) ==
    /\ IF "product_code" \in last.requests[k].req.data.fields
       THEN last.requests[k].phase = "checked"
       ELSE last.requests[k].phase = "received"
    /\ last' = [last EXCEPT !.requests[k] =
                   IF validate(store, last.requests[k].req.pk,
                               last.requests[k].req.data)
                   THEN [@ EXCEPT !.phase = "validated"]
                   ELSE [@ EXCEPT !.phase = "done", !.status = "400"]]
    /\ UNCHANGED <<store, runs>>

\* serializer.save() on the store as it is now
VariantSave(k) ==
    /\ last.requests[k].phase = "validated"
    /\ last' = [last EXCEPT !.requests[k] =
                   [@ EXCEPT !.phase = "done",
                             !.status =
                                 VariantWrite(store, last.requests[k].req,
                                              last.requests[k].instance)
                                     .status]]
    /\ store' = VariantWrite(store, last.requests[k].req,
                             last.requests[k].instance).db
    /\ UNCHANGED runs

\* populate_products beside the requests: one get_or_create, committed at
\* once
PopulateProductsCall ==
    /\ last.products_done < Len(ProductsCalls)
    /\ store' = ApplyCall(store, ProductsCalls[last.products_done + 1])
    /\ last' = [last EXCEPT !.products_done = @ + 1]
    /\ UNCHANGED runs

\* populate_consumers beside the requests: Steps 1 and 2
BeginVariantImport(df) ==
    /\ runs < MaxRequests
    /\ last.import.phase = "idle"
    /\ last' = [last EXCEPT !.import =
                   [phase |-> "staged", csv |-> df,
                    before |-> ImportStore(store), pending |-> {},
                    run |-> [ok |-> TRUE]]]
    /\ runs' = runs + 1
    /\ UNCHANGED store

\* populate_consumers writes and its transaction ends
FinishVariantImport ==
    /\ last.import.phase = "staged"
    /\ last' = [last EXCEPT !.import =
                   [@ EXCEPT !.phase = "done",
                             !.run = HandleFrom(last.import.before,
                                                ImportStore(store),
                                                last.import.csv)]]
    /\ store' = [store EXCEPT !.variants =
                    Atomic(ImportStore(store), last'.import.run).variants]
    /\ UNCHANGED runs

NextVariants ==
    \/ \E k \in {1, 2}, req \in VariantRequests : VariantReceive(k, req)
    \/ \E k \in {1, 2} : VariantValidateCode(k)
    \/ \E k \in {1, 2} : VariantValidate(k)
    \/ \E k \in {1, 2} : VariantSave(k)
    \/ PopulateProductsCall
    \/ \E df \in VariantCsvs : BeginVariantImport(df)
    \/ FinishVariantImport

SpecVariants == InitVariants /\ [][NextVariants]_vars

----------------------------------------------------------------------------
(* Properties of populate_consumers *)

IsImport == last.cmd = "populate_consumers"

\* index of the first row of df whose column col holds val
FirstRowWith(df, col, val) ==
    CHOOSE i \in DOMAIN df :
        df[i][col] = val /\ \A j \in 1..(i - 1) : df[j][col] # val

Column(df, col) == {df[i][col] : i \in DOMAIN df}

\* C1: populate_consumers is all-or-nothing: when a run raises (a cell that
\* does not parse, a constraint violation in any chunk of any bulk insert)
\* the store after the run equals the store before it.
C1_AllOrNothing ==
    (IsImport /\ ~last.run.ok) => store = last.before

\* a run that raised after its consumers had been written
C1_Witness ==
    /\ IsImport
    /\ ~last.run.ok
    /\ Len(last.run.db.consumers) > Len(last.before.consumers)
    /\ store = last.before

\* the batches a run staged are all empty
StagedNothing(run) ==
    /\ run.consumers_to_create = <<>>
    /\ run.addresses_to_create = <<>>
    /\ run.contacts_to_create = <<>>
    /\ run.variants_to_create = <<>>
    /\ run.connections_to_create = <<>>

\* a run on the CSV of the successful run before it
IsRerun ==
    /\ IsImport
    /\ last.run.ok
    /\ runs' = runs + 1
    /\ last'.cmd = "populate_consumers"
    /\ last'.csv = last.csv

\* C2: a second populate_consumers run on the same CSV, against the store a
\* successful first run left, stages no row and leaves the store as it is.
C2_RerunAddsNothing ==
    [][IsRerun => (StagedNothing(last'.run) /\ store' = store)]_vars

\* a second run on a CSV whose first run created consumers, children,
\* a variant and connections
C2_Witness ==
    /\ IsImport
    /\ last.run.ok
    /\ runs = 2
    /\ last.before # EmptyStore
    /\ Len(last.before.consumers) = 2
    /\ Len(last.before.variants) = 1
    /\ Column(last.csv, "ConsumerNumber") = ConsumerNumbers
    /\ "p1" \in Column(last.csv, "ProdCode")
    /\ store = last.before

\* C3: for every ConsumerNumber of the CSV the store does not hold, exactly
\* one Consumer is staged, built from the first row carrying the number; for
\* a number the store holds, none is staged.
C3_OneConsumerPerNumber ==
    IsImport =>
        LET df == last.csv
            staged == last.run.consumers_to_create
            existing == Prefetch(last.before).existing_consumer_nums
        IN /\ \A n \in Column(df, "ConsumerNumber") \ existing :
                  /\ Cardinality({i \in DOMAIN staged :
                                     staged[i].consumer_number = n}) = 1
                  /\ \E i \in DOMAIN staged :
                         staged[i] = NewConsumer(last.before,
                                         df[FirstRowWith(df, "ConsumerNumber", n)])
           /\ \A i \in DOMAIN staged :
                  /\ staged[i].consumer_number \in Column(df, "ConsumerNumber")
                  /\ staged[i].consumer_number \notin existing

\* two rows of one new consumer that differ, and one candidate
C3_Witness ==
    /\ IsImport
    /\ Len(last.csv) = 2
    /\ last.csv[1].ConsumerNumber = last.csv[2].ConsumerNumber
    /\ last.csv[1].ConsumerTypeIdDesc # last.csv[2].ConsumerTypeIdDesc
    /\ Len(last.run.consumers_to_create) = 1
    /\ last.run.consumers_to_create[1].consumer_type
           = last.csv[1].ConsumerTypeIdDesc

\* C5: at most one Connection is staged per SvNumber, none for an SvNumber
\* the store holds, each built from the first row carrying the SvNumber; a
\* loop that ran to its end staged one for every new SvNumber of the CSV.
C5_OneConnectionPerSv ==
    IsImport =>
        LET df == last.csv
            staged == last.run.connections_to_create
            existing == Prefetch(last.before).existing_connection_nums
        IN /\ \A i, j \in DOMAIN staged :
                  staged[i].sv_number = staged[j].sv_number => i = j
           /\ \A i \in DOMAIN staged :
                  /\ staged[i].sv_number \in Column(df, "SvNumber") \ existing
                  /\ LET row == df[FirstRowWith(df, "SvNumber",
                                                staged[i].sv_number)]
                     IN /\ staged[i].consumer_id =
                               ConsumerId(last.run.db.consumers,
                                          row.ConsumerNumber)
                        /\ staged[i].num_of_regulators
                               = DigitsToNat(row.NoOfDpr)
           /\ last.run.looped =>
                  \A sv \in Column(df, "SvNumber") \ existing :
                      \E i \in DOMAIN staged : staged[i].sv_number = sv

\* two rows of different consumers with one new SvNumber, and one candidate,
\* linked to the consumer of the first row
C5_Witness ==
    /\ IsImport
    /\ last.run.ok
    /\ Len(last.csv) = 2
    /\ last.csv[1].SvNumber = last.csv[2].SvNumber
    /\ last.csv[1].ConsumerNumber # last.csv[2].ConsumerNumber
    /\ Len(last.run.connections_to_create) = 1
    /\ last.run.connections_to_create[1].consumer_id
           = ConsumerId(store.consumers, last.csv[1].ConsumerNumber)

\* ids of the consumers a run created
CreatedIds(before, run) ==
    {i \in DOMAIN run.db.consumers : i > Len(before.consumers)}

\* C6: a loop that ran to its end staged exactly one Address and exactly one
\* Contact for every Consumer the run created, from the first row of that
\* consumer, and none for a consumer the store held before the run.
C6_OnePairPerNewConsumer ==
    (IsImport /\ last.run.looped) =>
        LET df == last.csv
            run == last.run
            created == CreatedIds(last.before, run)
            FirstOf(id) ==
                df[FirstRowWith(df, "ConsumerNumber",
                                run.db.consumers[id].consumer_number)]
        IN /\ \A id \in created :
                  /\ Cardinality({i \in DOMAIN run.addresses_to_create :
                         run.addresses_to_create[i].object_id = id}) = 1
                  /\ Cardinality({i \in DOMAIN run.contacts_to_create :
                         run.contacts_to_create[i].object_id = id}) = 1
           /\ \A i \in DOMAIN run.addresses_to_create :
                  LET a == run.addresses_to_create[i]
                  IN /\ a.object_id \in created
                     /\ a.address_text = FirstOf(a.object_id).Address
           /\ \A i \in DOMAIN run.contacts_to_create :
                  LET c == run.contacts_to_create[i]
                  IN /\ c.object_id \in created
                     /\ c.mobile_number = FirstOf(c.object_id).MobileNumber

\* a consumer the store held and a new consumer with two rows that differ:
\* one pair, for the new consumer, from its first row
C6_Witness ==
    /\ IsImport
    /\ last.run.ok
    /\ Len(last.before.consumers) = 1
    /\ Len(last.csv) = 2
    /\ last.csv[1].ConsumerNumber = last.csv[2].ConsumerNumber
    /\ last.csv[1].Address # last.csv[2].Address
    /\ Len(last.run.addresses_to_create) = 1
    /\ Len(last.run.contacts_to_create) = 1
    /\ Len(store.addresses) = 2

\* C7 (as claimed): no candidate is staged with a lookup reference that did
\* not resolve; a row naming an absent lookup value aborts the pass before
\* anything is staged for it.
C7_NoUnresolvedLookupStaged ==
    IsImport =>
        /\ \A i \in DOMAIN last.run.consumers_to_create :
               /\ last.run.consumers_to_create[i].category # None
               /\ last.run.consumers_to_create[i].consumer_type # None
        /\ \A i \in DOMAIN last.run.variants_to_create :
               /\ last.run.variants_to_create[i].product # None
               /\ last.run.variants_to_create[i].unit # None
        /\ \A i \in DOMAIN last.run.connections_to_create :
               last.run.connections_to_create[i].connection_type # None

\* place of a write in the order the claim gives
ClaimedRank(entry) ==
    CASE entry = "Consumer" -> 1
      [] entry = "Address" -> 2
      [] entry = "Contact" -> 2
      [] entry = "ProductVariant" -> 3
      [] entry = "refetch" -> 4
      [] entry = "ConnectionDetails" -> 5

\* place of a write in the order of the handler
WriteRank(entry) ==
    CASE entry = "Consumer" -> 1
      [] entry = "ProductVariant" -> 2
      [] entry = "refetch" -> 3
      [] entry = "Address" -> 4
      [] entry = "Contact" -> 5
      [] entry = "ConnectionDetails" -> 6

\* C8 (as claimed): the writes of a run happen in the order Consumers,
\* Addresses and Contacts, ProductVariants, re-fetch, Connections.
C8_ClaimedWriteOrder ==
    IsImport =>
        \A i, j \in DOMAIN last.run.log :
            i < j => ClaimedRank(last.run.log[i]) <= ClaimedRank(last.run.log[j])

\* C8 (amended): the writes of a run happen in the order Consumers,
\* ProductVariants, re-fetch of the variants, Addresses, Contacts,
\* Connections; the variant a Connection links to is in the store when the
\* Connection is written.
C8_WriteOrder ==
    IsImport =>
        /\ \A i, j \in DOMAIN last.run.log :
               i < j => WriteRank(last.run.log[i]) <= WriteRank(last.run.log[j])
        /\ \A i \in DOMAIN last.run.connections_to_create :
               LET conn == last.run.connections_to_create[i]
               IN conn.product # 0 =>
                      /\ conn.product \in DOMAIN last.run.db.variants
                      /\ "refetch" \in Range(last.run.log)

\* a run that wrote a consumer, a variant, an address, a contact and a
\* connection linked to the variant
C8_Witness ==
    /\ IsImport
    /\ last.run.ok
    /\ {"Consumer", "ProductVariant", "Address", "Contact",
        "ConnectionDetails"} \subseteq Range(last.run.log)
    /\ \E i \in DOMAIN last.run.connections_to_create :
           last.run.connections_to_create[i].product
               = Len(last.before.variants) + 1

\* C9: at most one ProductVariant is staged per ProdCode, none for a blank
\* code or a code the store holds, each built from the first row carrying
\* the code; the staged consumers, variants and connections carry no key the
\* store holds, and product_code is unique in the store.
C9_OneVariantPerCode ==
    /\ \A i, j \in DOMAIN store.variants :
           store.variants[i].product_code = store.variants[j].product_code
               => i = j
    /\ IsImport =>
        LET df == last.csv
            run == last.run
            pre == Prefetch(last.before)
            staged == run.variants_to_create
        IN /\ \A i, j \in DOMAIN staged :
                  staged[i].product_code = staged[j].product_code => i = j
           /\ \A i \in DOMAIN staged :
                  /\ staged[i].product_code # ""
                  /\ staged[i].product_code \notin pre.existing_variant_codes
                  /\ staged[i] =
                         NewVariant(last.before,
                             df[FirstRowWith(df, "ProdCode",
                                             staged[i].product_code)])
           /\ run.looped =>
                  \A p \in (Column(df, "ProdCode") \ {""})
                               \ pre.existing_variant_codes :
                      \E i \in DOMAIN staged : staged[i].product_code = p
           /\ \A i \in DOMAIN run.consumers_to_create :
                  run.consumers_to_create[i].consumer_number
                      \notin pre.existing_consumer_nums
           /\ \A i \in DOMAIN run.connections_to_create :
                  run.connections_to_create[i].sv_number
                      \notin pre.existing_connection_nums

\* two rows with one new ProdCode and different consumer types: one variant,
\* of the type of the first row
C9_Witness ==
    /\ IsImport
    /\ last.run.ok
    /\ Len(last.csv) = 2
    /\ last.csv[1].ProdCode = "p1"
    /\ last.csv[2].ProdCode = "p1"
    /\ last.csv[1].ConsumerTypeIdDesc = "Commercial"
    /\ last.csv[2].ConsumerTypeIdDesc = "Domestic"
    /\ Len(last.run.variants_to_create) = 1
    /\ last.run.variants_to_create[1].variant_type = "COMMERCIAL"
    /\ Len(store.variants) = 1

\* "Domestic Cylinder 14.2kg"
DomesticName ==
    <<"D", "o", "m", "e", "s", "t", "i", "c", " ",
      "C", "y", "l", "i", "n", "d", "e", "r", " ", "1", "4", ".", "2", "k", "g">>

\* "Commercial Cylinder 19.0kg"
CommercialName ==
    <<"C", "o", "m", "m", "e", "r", "c", "i", "a", "l", " ",
      "C", "y", "l", "i", "n", "d", "e", "r", " ", "1", "9", ".", "0", "k", "g">>

\* C17: a staged ProductVariant is tagged DOMESTIC exactly when the consumer
\* type of the first row carrying its ProdCode resolves to the type named
\* "Domestic", COMMERCIAL otherwise, and its name is that type label, then
\* " Cylinder ", then the cylinder size of that row, then "kg": a Domestic
\* row with NoOfCylinder 14.2 gives "Domestic Cylinder 14.2kg".
C17_VariantNameAndTag ==
    IsImport =>
      \A i \in DOMAIN last.run.variants_to_create :
        LET v == last.run.variants_to_create[i]
            row == last.csv[FirstRowWith(last.csv, "ProdCode", v.product_code)]
            domestic ==
                /\ row.ConsumerTypeIdDesc \in last.before.consumer_types
                /\ row.ConsumerTypeIdDesc = "Domestic"
            label == IF domestic THEN SubSeq(DomesticName, 1, 8)
                     ELSE SubSeq(CommercialName, 1, 10)
        IN /\ v.variant_type \in {"DOMESTIC", "COMMERCIAL"}
           /\ v.variant_type = "DOMESTIC" <=> domestic
           /\ v.name = label \o SubSeq(DomesticName, 9, 18)
                          \o FloatStr(Float(row.NoOfCylinder)) \o <<"k", "g">>
           /\ (domestic /\ row.NoOfCylinder = <<"1", "4", ".", "2">>)
                => v.name = DomesticName

\* an import has stored the variant "Domestic Cylinder 14.2kg", tagged
\* DOMESTIC, staged from a row of a Domestic consumer
C17_Witness ==
    /\ IsImport
    /\ last.run.ok
    /\ Len(last.run.variants_to_create) = 1
    /\ last.run.variants_to_create[1].name = DomesticName
    /\ last.run.variants_to_create[1].variant_type = "DOMESTIC"
    /\ \E k \in DOMAIN store.variants : store.variants[k].name = DomesticName

\* an import has stored the variant "Commercial Cylinder 19.0kg", tagged
\* COMMERCIAL
C17_WitnessCommercial ==
    /\ IsImport
    /\ last.run.ok
    /\ \E k \in DOMAIN store.variants :
          /\ store.variants[k].name = CommercialName
          /\ store.variants[k].variant_type = "COMMERCIAL"

\* a run of the import on an empty store and a CSV of one row
OneRowRun ==
    /\ last.cmd = "populate_consumers"
    /\ last.before.consumers = <<>>
    /\ Len(last.csv) = 1

\* the row is stored: the run returns and the store holds its consumer
RowStored ==
    /\ last.run.ok
    /\ Len(store.consumers) = 1
    /\ store.consumers[1].consumer_number = last.csv[1].ConsumerNumber

\* C15: a blue_book is stored only for a BlueBookNumber that is a non-empty
\* string of the digits 0..9; for every other cell the run does not raise,
\* the consumer of the row is stored and its blue_book is absent.
C15_BlueBookOnlyDigits ==
    (OneRowRun /\ last.csv[1].LPGId = <<>>) =>
      LET cell == last.csv[1].BlueBookNumber
      IN /\ (RowStored /\ store.consumers[1].blue_book # NoInt)
              => IsDecimal(cell)
         /\ ~IsDecimal(cell)
              => RowStored /\ store.consumers[1].blue_book = NoInt

\* C15 for the cells without a digit character outside 0..9: "1.9", "-1"
\* and "" are stored as absent
C15_BlueBookOnlyDigitsAscii ==
    (/\ OneRowRun /\ last.csv[1].LPGId = <<>>
     /\ SuperscriptTwo \notin Range(last.csv[1].BlueBookNumber)) =>
      LET cell == last.csv[1].BlueBookNumber
      IN /\ (RowStored /\ store.consumers[1].blue_book # NoInt)
              => IsDecimal(cell)
         /\ IsDecimal(cell)
              => RowStored /\ store.consumers[1].blue_book = <<Canon(cell)>>
         /\ ~IsDecimal(cell)
              => RowStored /\ store.consumers[1].blue_book = NoInt

\* the digits of an LPGId before its decimal point
WholePart(cell) ==
    LET k == FirstIndex(cell, ".")
    IN IF k = 0 THEN cell ELSE SubSeq(cell, 1, k - 1)

\* digits 0..9 with at most one decimal point, one digit at least
FloatLike(cell) == IsDecimal(ReplaceFirst(cell, "."))

\* C16: an lpg_id is stored only for an LPGId of digits with at most one
\* decimal point, and it is then the integer before the point: exactly the
\* integer the cell denotes for a cell of digits only; for every other cell
\* the run does not raise and the lpg_id is absent.
C16_LpgIdExact ==
    (OneRowRun /\ last.csv[1].BlueBookNumber = <<>>) =>
      LET cell == last.csv[1].LPGId
      IN /\ (RowStored /\ store.consumers[1].lpg_id # NoInt) => FloatLike(cell)
         /\ FloatLike(cell)
              => /\ RowStored
                 /\ store.consumers[1].lpg_id = <<Canon(WholePart(cell))>>
         /\ ~FloatLike(cell)
              => RowStored /\ store.consumers[1].lpg_id = NoInt

\* C16 for the cells of at most MaxCellLen characters without a digit
\* character outside 0..9
C16_LpgIdExactShort ==
    (/\ OneRowRun /\ last.csv[1].BlueBookNumber = <<>>
     /\ Len(last.csv[1].LPGId) <= MaxCellLen
     /\ SuperscriptTwo \notin Range(last.csv[1].LPGId)) =>
      LET cell == last.csv[1].LPGId
      IN /\ (RowStored /\ store.consumers[1].lpg_id # NoInt) => FloatLike(cell)
         /\ FloatLike(cell)
              => /\ RowStored
                 /\ store.consumers[1].lpg_id = <<Canon(WholePart(cell))>>
         /\ ~FloatLike(cell)
              => RowStored /\ store.consumers[1].lpg_id = NoInt

\* the digits-only LPGId cells whose stored lpg_id is not the integer they
\* denote are the odd integers above 2^53
C16_InexactAbove2To53 ==
    (/\ OneRowRun /\ last.csv[1].BlueBookNumber = <<>>
     /\ IsDecimal(last.csv[1].LPGId) /\ RowStored) =>
      LET cell == last.csv[1].LPGId
      IN store.consumers[1].lpg_id # <<Canon(cell)>>
           <=> /\ IntLess(TwoTo53, Canon(cell))
               /\ DigitVal(cell[Len(cell)]) % 2 = 1

----------------------------------------------------------------------------
(* Properties of populate_consumers_route *)

IsRouteRun == last.cmd = "populate_consumers_route"

\* the row resolves: both cells filled, the consumer and the route exist
Resolves(db, row) ==
    /\ row.ConsumerNumber # ""
    /\ row.AreaCodeDesc # <<>>
    /\ ConsumerId(db.consumers, row.ConsumerNumber) # 0
    /\ AreaCode(row.AreaCodeDesc) \in db.routes

\* C4: no consumer ever has two ConsumerRouteAssignments, in the store or in
\* the batch a run stages; a consumer with an assignment in the store gets
\* none staged, and the staged assignment of a consumer is to the route of
\* its first row that resolves.
C4_OneAssignmentPerConsumer ==
    /\ \A i, j \in DOMAIN store.assignments :
           store.assignments[i].consumer = store.assignments[j].consumer
               => i = j
    /\ IsRouteRun =>
        LET df == last.csv
            staged == last.run.assignments_to_create
        IN /\ \A i, j \in DOMAIN staged :
                  staged[i].consumer = staged[j].consumer => i = j
           /\ \A i \in DOMAIN staged :
                  /\ \A k \in DOMAIN last.before.assignments :
                         last.before.assignments[k].consumer # staged[i].consumer
                  /\ \E k \in DOMAIN df :
                         /\ Resolves(last.before, df[k])
                         /\ ConsumerId(last.before.consumers,
                                       df[k].ConsumerNumber) = staged[i].consumer
                         /\ AreaCode(df[k].AreaCodeDesc) = staged[i].route
                         /\ \A j \in 1..(k - 1) :
                                Resolves(last.before, df[j]) =>
                                    df[j].ConsumerNumber # df[k].ConsumerNumber

\* two rows of one consumer with different valid routes: one assignment, to
\* the route of the first row
C4_Witness ==
    /\ IsRouteRun
    /\ Len(last.csv) = 2
    /\ last.csv[1].ConsumerNumber = "c1"
    /\ last.csv[2].ConsumerNumber = "c1"
    /\ last.csv[1].AreaCodeDesc = <<"B", "-", "y", "-", "z">>
    /\ last.csv[2].AreaCodeDesc = <<"A", "-", "x">>
    /\ Len(store.assignments) = 1
    /\ store.assignments[1].route = <<"B">>

\* the rows of the CSV with a blank field, an unknown consumer or an unknown
\* route
MissingData(db, df) ==
    {i \in DOMAIN df :
       \/ df[i].ConsumerNumber = ""
       \/ df[i].AreaCodeDesc = <<>>
       \/ \A k \in DOMAIN db.consumers :
            db.consumers[k].consumer_number # df[i].ConsumerNumber
       \/ AreaCode(df[i].AreaCodeDesc) \notin db.routes}

\* the resolved rows whose consumer has an assignment in the store or is the
\* consumer of an earlier resolved row
AlreadyAssignedRows(db, df) ==
    {i \in DOMAIN df \ MissingData(db, df) :
       \/ \E a \in DOMAIN db.assignments :
            db.consumers[db.assignments[a].consumer].consumer_number
              = df[i].ConsumerNumber
       \/ \E j \in (1..(i - 1)) \ MissingData(db, df) :
            df[j].ConsumerNumber = df[i].ConsumerNumber}

StagedRows(db, df) ==
    DOMAIN df \ (MissingData(db, df) \cup AlreadyAssignedRows(db, df))

\* C14: every row of the CSV is counted as missing data (blank field,
\* unknown consumer or unknown route), as already assigned (in the store or
\* staged earlier in the run) or is staged for creation, and the write of
\* the staged assignments never violates the uniqueness of the consumer key.
C14_RowsClassified ==
    last.cmd = "populate_consumers_route" =>
      LET db == last.before
          df == last.csv
          run == last.run
          staged == StagedRows(db, df)
      IN /\ run.skipped_missing_data = Cardinality(MissingData(db, df))
         /\ run.skipped_already_assigned = Cardinality(AlreadyAssignedRows(db, df))
         /\ Len(run.assignments_to_create) = Cardinality(staged)
         /\ run.created = Cardinality(staged)
         /\ run.skipped_missing_data + run.skipped_already_assigned
               + Len(run.assignments_to_create) = Len(df)
         /\ [k \in DOMAIN run.assignments_to_create |->
               db.consumers[run.assignments_to_create[k].consumer].consumer_number]
              = [k \in DOMAIN SelectIdx(df, staged, 1) |->
                   SelectIdx(df, staged, 1)[k].ConsumerNumber]
         /\ ~run.needs_rollback
         /\ store.assignments = db.assignments \o run.assignments_to_create

\* a run on a store without assignments that stages one row and skips the
\* next one, of the same consumer, as already assigned
C14_Witness ==
    /\ last.cmd = "populate_consumers_route"
    /\ last.before.assignments = <<>>
    /\ Len(last.csv) = 2
    /\ last.csv[1].ConsumerNumber = last.csv[2].ConsumerNumber
    /\ last.run.created = 1
    /\ last.run.skipped_already_assigned = 1
    /\ Len(store.assignments) = 1

\* a run that skips a row of an unknown consumer as missing data and a row
\* of a consumer assigned by an earlier run as already assigned
C14_WitnessStore ==
    /\ last.cmd = "populate_consumers_route"
    /\ Len(last.before.assignments) = 1
    /\ last.run.skipped_missing_data = 1
    /\ last.run.skipped_already_assigned = 1

\* the three counters after the first n rows of the CSV
CountersAfter(db, df, n) ==
    LET st == RouteStage(db, SubSeq(df, 1, n))
    IN <<Len(st.assignments_to_create), st.skipped_already_assigned,
         st.skipped_missing_data>>

\* the consumer of the row has an assignment in the store and the route
\* code of the row names no route
AssignedButUnresolved(db, row) ==
    /\ \E a \in DOMAIN db.assignments :
           db.consumers[db.assignments[a].consumer].consumer_number
               = row.ConsumerNumber
    /\ AreaCode(row.AreaCodeDesc) \notin db.routes

\* C28: in a populate_consumers_route run created + skipped already
\* assigned + skipped missing data is the number of rows of the CSV, every
\* row adds one to exactly one of the three counters, and a row of an
\* assigned consumer whose route code does not resolve adds to the missing
\* data counter.
C28_CountersPartitionRows ==
    last.cmd = "populate_consumers_route" =>
      LET db == last.before
          df == last.csv
          run == last.run
      IN /\ run.created + run.skipped_already_assigned
               + run.skipped_missing_data = Len(df)
         /\ run.total = Len(df)
         /\ CountersAfter(db, df, Len(df))
               = <<run.created, run.skipped_already_assigned,
                   run.skipped_missing_data>>
         /\ \A n \in DOMAIN df :
                LET a == CountersAfter(db, df, n - 1)
                    b == CountersAfter(db, df, n)
                IN /\ \E k \in 1..3 :
                          /\ b[k] = a[k] + 1
                          /\ \A j \in (1..3) \ {k} : b[j] = a[j]
                   /\ AssignedButUnresolved(db, df[n]) => b[3] = a[3] + 1

\* the second run: consumer c1, assigned by the first, comes with the code
\* of no route and is counted as missing data
C28_Witness ==
    /\ last.cmd = "populate_consumers_route"
    /\ Len(last.csv) = 2
    /\ AssignedButUnresolved(last.before, last.csv[1])
    /\ last.run.skipped_missing_data = 1
    /\ last.run.skipped_already_assigned + last.run.created = 1

----------------------------------------------------------------------------
(* Properties of find_duplicate_ration_cards *)

IsRationReport == last.cmd = "find_duplicate_ration_cards"

\* C10: a non-blank Rationcardno is reported if and only if two of the rows
\* carrying it have different ConsumerNumbers; the count reported is the
\* number of its distinct ConsumerNumbers, each listed once; a blank
\* Rationcardno is never reported.
C10_SharedByDifferentConsumers ==
    IsRationReport =>
        LET df == last.csv
            report == last.report
            Reported(r) == \E g \in DOMAIN report : report[g].ration_card_num = r
            Shared(r) ==
                \E i, j \in DOMAIN df :
                    /\ df[i].Rationcardno = r
                    /\ df[j].Rationcardno = r
                    /\ df[i].ConsumerNumber # df[j].ConsumerNumber
        IN /\ \A r \in Range(RationCardOrder) : Reported(r) <=> Shared(r)
           /\ ~Reported("")
           /\ \A g \in DOMAIN report :
                  LET consumers ==
                          {df[i].ConsumerNumber :
                              i \in {k \in DOMAIN df :
                                        df[k].Rationcardno
                                            = report[g].ration_card_num}}
                  IN /\ report[g].unique_consumer_count = Cardinality(consumers)
                     /\ Len(report[g].rows) = Cardinality(consumers)
                     /\ {report[g].rows[k].consumer_number :
                            k \in DOMAIN report[g].rows} = consumers

\* one card on a repeated row of one consumer is not reported, while a card
\* on three rows of two consumers is reported as shared by 2
C10_Witness ==
    /\ IsRationReport
    /\ Len(last.csv) = 3
    /\ \A i \in 1..3 : last.csv[i].Rationcardno = "r1"
    /\ last.csv[1].ConsumerNumber = "c1"
    /\ last.csv[2].ConsumerNumber = "c1"
    /\ last.csv[3].ConsumerNumber = "c2"
    /\ Len(last.report) = 1
    /\ last.report[1].unique_consumer_count = 2
    /\ Len(last.report[1].rows) = 2

----------------------------------------------------------------------------
(* Properties of find_duplicate_sv_numbers *)

IsSvReport == last.cmd = "find_duplicate_sv_numbers"

\* C11: an SvNumber is reported if and only if more than one row carries it,
\* and its group lists every row carrying it, the first one included,
\* whatever the ConsumerNumbers of the rows.
C11_MarkAllOccurrences ==
    IsSvReport =>
        LET df == last.csv
            report == last.report
            Carrying(sv) == {i \in DOMAIN df : df[i].SvNumber = sv}
        IN /\ \A sv \in Range(SvOrder) :
                  Cardinality({g \in DOMAIN report : report[g].sv_num = sv})
                      = (IF Cardinality(Carrying(sv)) > 1 THEN 1 ELSE 0)
           /\ \A g \in DOMAIN report :
                  /\ {r.row : r \in report[g].rows}
                         = {i + 1 : i \in Carrying(report[g].sv_num)}
                  /\ \A r \in report[g].rows :
                         r.consumer_number = df[r.row - 1].ConsumerNumber

\* an SvNumber on two rows of one consumer is reported with both rows, the
\* SvNumber of a single row is not
C11_Witness ==
    /\ IsSvReport
    /\ Len(last.csv) = 3
    /\ last.csv[1] = [SvNumber |-> "s1", ConsumerNumber |-> "c1"]
    /\ last.csv[2] = [SvNumber |-> "s2", ConsumerNumber |-> "c2"]
    /\ last.csv[3] = [SvNumber |-> "s1", ConsumerNumber |-> "c1"]
    /\ Len(last.report) = 1
    /\ last.report[1].sv_num = "s1"
    /\ {r.row : r \in last.report[1].rows} = {2, 4}

----------------------------------------------------------------------------
(* Properties of validate_consumer_addresses *)

\* the rows of the CSV that carry the filter and an address
FilterRows(df, f) ==
    {i \in DOMAIN df : df[i].AreaCodeDesc = f /\ df[i].Address # <<>>}

\* the first row of consumer number c among them, 0 when there is none
FirstRowOf(df, f, c) ==
    IF \E i \in FilterRows(df, f) : df[i].ConsumerNumber = c
    THEN CHOOSE i \in FilterRows(df, f) :
           /\ df[i].ConsumerNumber = c
           /\ \A j \in FilterRows(df, f) :
                df[j].ConsumerNumber = c => i <= j
    ELSE 0

\* the sub-area names of the route the filter names
SubAreasOf(db, f) ==
    LET p == parse_area_code_desc(f)
    IN {a.area_name : a \in {x \in db.route_areas :
          /\ x.route = p.area_code
          /\ \E r \in db.routes : /\ r.area_code = p.area_code
                                  /\ r.area_code_description = p.area_description}}

FilterNamesRoute(db, f) ==
    LET p == parse_area_code_desc(f)
    IN /\ p.ok
       /\ \E r \in db.routes : /\ r.area_code = p.area_code
                               /\ r.area_code_description = p.area_description

Flagged(report) ==
    {report.invalid[i].consumer_number : i \in DOMAIN report.invalid}

\* C12: when the filter names a route, the consumers the validator flags are
\* exactly those whose first row carrying the filter has an address of which
\* no sub-area name of the route is a case-insensitive substring.
C12_FlagsExactly ==
    (/\ last.cmd = "validate_consumer_addresses"
     /\ FilterNamesRoute(store, last.filter))
    => Flagged(last.report) =
         {c \in ConsumerNumbers :
            LET i == FirstRowOf(last.csv, last.filter, c)
            IN /\ i # 0
               /\ ~\E a \in SubAreasOf(store, last.filter) :
                    Contains(Upper(a), Upper(last.csv[i].Address))}

\* C12 holds for a route that owns sub-areas: this is the part of the claim
\* the code keeps
C12_FlagsExactlyWithSubAreas ==
    (/\ last.cmd = "validate_consumer_addresses"
     /\ FilterNamesRoute(store, last.filter)
     /\ SubAreasOf(store, last.filter) # {})
    => Flagged(last.report) =
         {c \in ConsumerNumbers :
            LET i == FirstRowOf(last.csv, last.filter, c)
            IN /\ i # 0
               /\ ~\E a \in SubAreasOf(store, last.filter) :
                    Contains(Upper(a), Upper(last.csv[i].Address))}

\* the report counts a consumer as valid
ReportsValid(report) ==
    report.outcome \in {"all_valid", "mismatches"} /\ report.match > 0

\* C29: the validator reports that all consumer addresses contain valid
\* area names only when the route was found, owns a sub-area and the address
\* of every deduplicated consumer contains one; when the route is not found
\* or owns no sub-area no consumer is reported valid; valid + invalid is the
\* number of deduplicated consumers.
C29_AllValidOnlyWhenChecked ==
    last.cmd = "validate_consumer_addresses" =>
      LET report == last.report
      IN /\ report.outcome = "all_valid" =>
               /\ report.route_found
               /\ report.route_areas # {}
               /\ \A i \in DOMAIN report.consumers :
                      \E a \in report.route_areas :
                          Contains(Upper(a), Upper(report.consumers[i].address))
         /\ (~report.route_found \/ report.route_areas = {})
               => ~ReportsValid(report)
         /\ report.outcome \in {"all_valid", "mismatches"} =>
               /\ report.match + report.mismatch = Len(report.consumers)
               /\ report.total = Len(report.consumers)

\* C29 for a route that is found and owns a sub-area: all valid is reported
\* exactly when every address contains a sub-area name, and the counts add up
C29_AllValidWithSubAreas ==
    (/\ last.cmd = "validate_consumer_addresses"
     /\ last.report.route_found
     /\ last.report.route_areas # {}) =>
      LET report == last.report
      IN /\ report.outcome = "all_valid" <=>
               \A i \in DOMAIN report.consumers :
                   \E a \in report.route_areas :
                       Contains(Upper(a), Upper(report.consumers[i].address))
         /\ report.match + report.mismatch = Len(report.consumers)

----------------------------------------------------------------------------
(* Properties of the split of an area-code-description *)

\* C13: the validator splits an area-code-description on its first hyphen
\* only ("A-x" gives code "A" and description "x", "A-x-x" gives code "A" and
\* description "x-x"), rejects a string without a hyphen as an error, and the
\* route-assignment import derives the same code from the same string.
C13_SplitOnFirstHyphen ==
    (last.cmd = "split" /\ last.parsed # NotYet) =>
      LET s == last.area_code_desc
          p == last.parsed[1]
          hyphens == {i \in DOMAIN s : s[i] = "-"}
      IN /\ p.ok <=> hyphens # {}
         /\ p.ok =>
              \E k \in hyphens :
                 /\ \A j \in hyphens : k <= j
                 /\ p.area_code = Strip(SubSeq(s, 1, k - 1))
                 /\ p.area_description = Strip(SubSeq(s, k + 1, Len(s)))
                 /\ "-" \notin Range(p.area_code)
         /\ s = <<"A", "-", "x">> =>
              p.area_code = <<"A">> /\ p.area_description = <<"x">>
         /\ s = <<"A", "-", "x", "-", "x">> =>
              p.area_code = <<"A">> /\ p.area_description = <<"x", "-", "x">>
         /\ (p.ok /\ last.area_code # NotYet) => last.area_code[1] = p.area_code

\* both commands have split "A-x-x": code "A" twice, description "x-x"
C13_Witness ==
    /\ last.cmd = "split"
    /\ last.area_code_desc = <<"A", "-", "x", "-", "x">>
    /\ last.parsed = <<[ok |-> TRUE, area_code |-> <<"A">>,
                        area_description |-> <<"x", "-", "x">>]>>
    /\ last.area_code = <<<<"A">>>>

\* the validator has rejected " A x", which holds no hyphen
C13_WitnessNoHyphen ==
    /\ last.cmd = "split"
    /\ last.area_code_desc = <<" ", "A", " ", "x">>
    /\ last.parsed # NotYet
    /\ ~last.parsed[1].ok

----------------------------------------------------------------------------
(* Properties of populate_lookups *)

\* the number of rows of the table with that name
CountRows(table, name) == Cardinality({i \in DOMAIN table : table[i] = name})

\* C18: no registry ever holds two rows of one name or a row of a blank
\* name; after a run every registry holds exactly one row for every
\* non-blank value of its column and, besides, the rows it held before; a
\* second run on the same CSV leaves the store as it is.
C18_LookupsIdempotent ==
    /\ \A t \in DOMAIN store : \A i, j \in DOMAIN store[t] :
          store[t][i] = store[t][j] => i = j
    /\ \A t \in DOMAIN store \ {"variants"} : "" \notin Range(store[t])
    /\ last.cmd = "populate_lookups" =>
         /\ \A k \in DOMAIN LookupColumns :
              LET t == LookupTables[k]
                  values == {last.csv[i][LookupColumns[k]] :
                               i \in DOMAIN last.csv} \ {""}
              IN /\ \A v \in values : CountRows(store[t], v) = 1
                 /\ Range(store[t]) = Range(last.before[t]) \cup values
                 /\ Len(store[t])
                      = Len(last.before[t])
                          + Cardinality(values \ Range(last.before[t]))
         /\ Range(store.products)
                = Range(last.before.products) \cup {"LPG Cylinder", "Appliance"}
         /\ Range(store.units)
                = Range(last.before.units) \cup {"kg", "pcs", "mtr"}
         /\ LookupsHandle(store, last.csv) = store

\* a second run on a CSV that repeats values of the first one (two rows that
\* share the DCTType, one with a blank scheme) has added no row
C18_Witness ==
    /\ last.cmd = "populate_lookups"
    /\ Len(last.csv) = 2
    /\ last.csv[1].DCTType = "DCT" /\ last.csv[2].DCTType = "DCT"
    /\ last.csv[1].Scheme = "PMUY" /\ last.csv[2].Scheme = ""
    /\ last.before = store
    /\ store.dct_types = <<"DCT">>
    /\ store.schemes = <<"PMUY">>
    /\ Len(store.market_types) = 2

----------------------------------------------------------------------------
(* Properties of the commands on a fatal input *)

\* C19: a command run on a path to no file, or on a CSV whose header lacks
\* a required column, ends with a non-zero exit status and an error
\* message, prints no summary or report and leaves the store as it was.
C19_FatalInputAborts ==
    last.cmd # "none" =>
      /\ last.outcome.exit # 0
      /\ last.outcome.error_message
      /\ ~last.outcome.summary
      /\ store = last.before

\* the address validator keeps C19: CommandError on every fatal input
C19_ValidatorAborts ==
    last.cmd = "validate_consumer_addresses" =>
      /\ last.outcome.exit # 0
      /\ last.outcome.error_message
      /\ ~last.outcome.summary
      /\ store = last.before

\* the route-assignment import writes nothing on a fatal input, but returns
\* with exit status 0; without the ConsumerNumber or the AreaCodeDesc column
\* it counts every row as missing data and prints the summary
C19_RouteImportReturns ==
    last.cmd = "populate_consumers_route" =>
      /\ last.outcome.exit = 0
      /\ store = last.before
      /\ last.file = "present" =>
           /\ last.outcome.summary
           /\ last.outcome.skipped_missing_data = Len(last.csv)

----------------------------------------------------------------------------
(* Properties of populate_lookups next to a concurrent reader *)

\* C20: the store a concurrent reader sees holds none or all of the rows of
\* an invocation, while it runs and after it has returned or stopped with
\* an error.
C20_NoneOrAllVisible ==
    last.cmd = "populate_lookups" =>
      \/ store = last.before
      \/ store = LookupsHandle(last.before, last.csv)

\* what a reader sees of an invocation is always the rows of a prefix of its
\* get_or_create calls, and all of them once handle has returned without an
\* error
C20_PrefixVisible ==
    last.cmd = "populate_lookups" =>
      /\ store = ApplyCalls(last.before, last.calls, last.done)
      /\ (~last.running /\ ~last.error) =>
           store = LookupsHandle(last.before, last.csv)

----------------------------------------------------------------------------
(* Properties of populate_consumers_route beside another run *)

\* a run of populate_consumers_route that has ended
RouteRunEnded ==
    IF last.cmd = "populate_consumers_route" THEN ~last.running ELSE FALSE

\* C21: a populate_consumers_route run either returns with every staged
\* assignment committed, the N of "Created N new Consumer Route assignments"
\* being the number of rows it added to the store, or raises with nothing of
\* it committed.
C21_ReturnedMeansCommitted ==
    RouteRunEnded =>
        IF last.exit = ExitReturned
        THEN /\ store.assignments =
                    last.at_write.assignments \o last.run.assignments_to_create
             /\ Len(store.assignments) - Len(last.at_write.assignments) =
                    last.run.created
        ELSE store = last.at_write

----------------------------------------------------------------------------
(* Properties of populate_consumers over the numeric cells *)

\* the lookup values the row names are registered
LookupsResolve(db, row) ==
    /\ row.Category \in db.categories
    /\ row.ConsumerTypeIdDesc \in db.consumer_types
    /\ row.InDocTypeIdDesc \in db.connection_types

\* one of the four numeric cells of the row is blank or is no number
Malformed(row) ==
    \/ ~IsDecimal(row.BlueBookNumber)
    \/ ~FloatParses(row.LPGId)
    \/ ~FloatParses(row.NoOfCylinder)
    \/ ~IntParses(row.NoOfDpr)

StoredConsumerNumbers ==
    {store.consumers[i].consumer_number : i \in DOMAIN store.consumers}

\* C22: a populate_consumers run on rows whose lookup values all resolve
\* does not abort for a malformed or blank BlueBookNumber, LPGId,
\* NoOfCylinder or NoOfDpr: the run returns, and the consumer of every row
\* without a malformed cell is in the store after it.
C22_MalformedNumericSkipped ==
    (/\ IsImport
     /\ \A i \in DOMAIN last.csv : LookupsResolve(last.before, last.csv[i]))
      => /\ last.run.ok
         /\ \A i \in DOMAIN last.csv :
                ~Malformed(last.csv[i])
                    => last.csv[i].ConsumerNumber \in StoredConsumerNumbers

\* C22 for the two columns the handler guards: a malformed or blank LPGId or
\* BlueBookNumber without a digit character outside 0..9 leaves the run
\* returning and both consumers stored
C22_GuardedColumnsSkipped ==
    (/\ IsImport
     /\ \A i \in DOMAIN last.csv :
            /\ FloatParses(last.csv[i].NoOfCylinder)
            /\ IntParses(last.csv[i].NoOfDpr)
            /\ SuperscriptTwo \notin Range(last.csv[i].BlueBookNumber)
            /\ SuperscriptTwo \notin Range(last.csv[i].LPGId))
      => /\ last.run.ok
         /\ \A i \in DOMAIN last.csv :
                last.csv[i].ConsumerNumber \in StoredConsumerNumbers

----------------------------------------------------------------------------
(* Properties of the Blue Book reports and process_areas *)

\* the number of distinct consumers whose first row holds the number b
HoldersOf(df, b) ==
    Cardinality({df[i].ConsumerNumber :
                    i \in {j \in DOMAIN df :
                              /\ df[j].BlueBookNumber = b
                              /\ \A l \in 1..(j - 1) :
                                     df[l].ConsumerNumber # df[j].ConsumerNumber}})

\* the entries of a report list exactly the non-blank numbers held by more
\* than one consumer, each with the number of its holders
ListsSharedNumbers(df, report) ==
    /\ \A k \in DOMAIN report :
           \A b \in report[k].numbers :
               b # "" /\ report[k].count = HoldersOf(df, b)
                      /\ report[k].count > 1
    /\ \A b \in BlueBookNumbers \ {""} :
           HoldersOf(df, b) > 1
               => \E k \in DOMAIN report : b \in report[k].numbers

\* the entries of a report are in ascending order of count
AscendingCounts(report) ==
    \A j, k \in DOMAIN report : j < k => report[j].count <= report[k].count

\* C23: shared_bluebook and generate_bluebook_reports list the shared Blue
\* Book numbers, those held by more than one distinct consumer, in ascending
\* order of the number of holders; process_areas lists the descriptions in
\* ascending order and, under each, the area ids in ascending order.
C23_ReportsAscending ==
    /\ last.cmd \in {"shared_bluebook", "generate_bluebook_reports"} =>
           /\ ListsSharedNumbers(last.csv, last.report)
           /\ AscendingCounts(last.report)
    /\ last.cmd = "process_areas" =>
           /\ \A j, k \in DOMAIN last.report :
                  j < k => StrLess(last.report[j].area_desc,
                                   last.report[k].area_desc)
           /\ \A k \in DOMAIN last.report :
                  \A i, j \in DOMAIN last.report[k].area_ids :
                      i < j => StrLess(last.report[k].area_ids[i],
                                       last.report[k].area_ids[j])

\* C23 with the order shared_bluebook prints: the counts are right in both
\* reports, generate_bluebook_reports is ascending and shared_bluebook
\* descending
C23_SharedBluebookDescending ==
    /\ last.cmd \in {"shared_bluebook", "generate_bluebook_reports"} =>
           ListsSharedNumbers(last.csv, last.report)
    /\ last.cmd = "generate_bluebook_reports" => AscendingCounts(last.report)
    /\ last.cmd = "shared_bluebook" =>
           \A j, k \in DOMAIN last.report :
               j < k => last.report[j].count >= last.report[k].count

----------------------------------------------------------------------------
(* Properties of the consumers API beside populate_consumers *)

\* no two Consumers of the store share a consumer_number or a non-null lpg_id
ConsumersUnique ==
    \A i, j \in DOMAIN store.consumers :
        (i # j /\ RowPresent(store, i) /\ RowPresent(store, j)) =>
            /\ store.consumers[i].consumer_number
                   # store.consumers[j].consumer_number
            /\ store.consumers[i].lpg_id # NoInt =>
                   store.consumers[i].lpg_id # store.consumers[j].lpg_id

\* a request that ends without being saved, or an import that raises,
\* leaves the store as it was
RejectedLeavesStore ==
    /\ \A k \in {1, 2} :
           (/\ last.requests[k].phase # "done"
            /\ last'.requests[k].phase = "done"
            /\ last'.requests[k].outcome \notin {"saved", "deleted"})
               => store' = store
    /\ (last.import.phase # "done" /\ last'.import.phase = "done"
            /\ ~last'.import.run.ok)
           => store' = Visible(store, last.import.pending)

\* C24: under every interleaving of create, update and partial-update
\* requests and populate_consumers runs, no two Consumers share a
\* consumer_number or a non-null lpg_id, and a request or run that would
\* break this is refused and leaves the store unchanged, also when two
\* requests passed the serializer's check before either was saved.
C24_ConsumerKeysUnique ==
    [](ConsumersUnique) /\ [][RejectedLeavesStore]_vars

\* two create requests for the same new number both passed validation; one
\* was saved and the other refused by the database
C24_Witness ==
    /\ last.cmd = "consumers_api"
    /\ \E j, k \in {1, 2} :
           /\ last.requests[j].req.action = "create"
           /\ last.requests[k].req.action = "create"
           /\ last.requests[j].req.consumer_number = "c3"
           /\ last.requests[k].req.consumer_number = "c3"
           /\ last.requests[j].outcome = "saved"
           /\ last.requests[k].outcome = "500"
    /\ Len(store.consumers) = 3

----------------------------------------------------------------------------
(* Properties of populate_routes *)

\* a populate_routes run that has returned
IsRoutesRun == IF last.cmd = "populate_routes" THEN ~last.running ELSE FALSE

\* every RouteArea is owned by one Route of the store, and no Route owns two
\* RouteAreas of one name
RouteAreasOwned ==
    /\ \A i \in DOMAIN store.route_areas :
           store.route_areas[i].route \in DOMAIN store.routes
    /\ \A i, j \in DOMAIN store.route_areas :
           store.route_areas[i] = store.route_areas[j] => i = j
    /\ \A i, j \in DOMAIN store.routes :
           store.routes[i].area_code = store.routes[j].area_code => i = j

\* a run that has returned left what the loop as a whole computes, a run on
\* the same CSV after it creates nothing, and a run on the CSV of the first
\* run has created nothing
RoutesRerunCreatesNothing ==
    IsRoutesRun =>
      /\ store = RoutesHandle(last.before, last.csv).db
      /\ RoutesHandle(store, last.csv).db = store
      /\ RoutesHandle(store, last.csv).created_routes = 0
      /\ RoutesHandle(store, last.csv).created_areas = 0
      /\ last.before = RoutesHandle(EmptyRoutes, last.csv).db =>
           /\ store = last.before
           /\ last.run.created_routes = 0
           /\ last.run.created_areas = 0

\* C25: in every store a reader can see, every RouteArea belongs to exactly
\* one Route and no Route owns two RouteAreas with the same area_name (the
\* same name may exist under two Routes); a run on the CSV of the run
\* before it creates no Route and no RouteArea.
C25_AreasUniquePerRoute ==
    RouteAreasOwned /\ RoutesRerunCreatesNothing

\* the second run on a CSV that puts the area "x" under both routes: the
\* store holds both areas and the run created nothing
C25_Witness ==
    /\ IsRoutesRun
    /\ runs = 2
    /\ store = RoutesHandle(EmptyRoutes, last.csv).db
    /\ last.before = store
    /\ last.run.created_routes = 0
    /\ last.run.created_areas = 0
    /\ \E i, j \in DOMAIN store.route_areas :
           /\ store.route_areas[i].route # store.route_areas[j].route
           /\ store.route_areas[i].area_name = store.route_areas[j].area_name

\* the rows up to the i-th that carry an AREA CODE
CodeRowsUpTo(df, i) == {j \in 1..i : Strip(df[j].area_code) # <<>>}

\* the last of them
LastCodeRow(df, i) ==
    CHOOSE j \in CodeRowsUpTo(df, i) : \A k \in CodeRowsUpTo(df, i) : k <= j

\* C27: a row with a non-blank AREA NAME is attached to the route of the
\* most recent row, itself included, that carries an AREA CODE, when the
\* lookup of that code succeeded; it is skipped when no row so far carries a
\* code or when the lookup of the most recent code raised.
C27_AreaFollowsLastCode ==
    IsRoutesRun =>
        /\ Len(last.run.log) = Len(last.csv)
        /\ \A i \in DOMAIN last.csv :
               LET df == last.csv
                   entry == last.run.log[i]
               IN IF Strip(df[i].area_name) = <<>>
                  THEN entry.out # "area"
                  ELSE IF CodeRowsUpTo(df, i) = {}
                  THEN entry.out = "warning"
                  ELSE IF df[LastCodeRow(df, i)].raises
                  THEN entry.out = (IF LastCodeRow(df, i) = i
                                    THEN "error" ELSE "warning")
                  ELSE /\ entry.out = "area"
                       /\ entry.route \in DOMAIN store.routes
                       /\ store.routes[entry.route].area_code
                              = Strip(df[LastCodeRow(df, i)].area_code)
                       /\ \E k \in DOMAIN store.route_areas :
                              store.route_areas[k]
                                  = [route |-> entry.route,
                                     area_name |-> Strip(df[i].area_name)]

\* an area attached under "A", then a code whose lookup raises, then a row
\* without a code that is skipped
C27_Witness ==
    /\ IsRoutesRun
    /\ Len(last.csv) = 3
    /\ last.csv[1].area_code = <<"A">> /\ ~last.csv[1].raises
    /\ last.csv[2].raises
    /\ last.csv[3].area_code = <<>> /\ last.csv[3].area_name = <<"x">>
    /\ last.run.log[1].out = "area"
    /\ last.run.log[2].out = "error"
    /\ last.run.log[3].out = "warning"

----------------------------------------------------------------------------
(* Properties of the product variants API *)

\* C26: after any sequence of create, full-update and partial-update
\* requests no two ProductVariants of one product have the same name, and
\* no two have the same product_code.
C26_ProductNameUnique ==
    \A i, j \in DOMAIN store.variants :
        i # j =>
            /\ ~(/\ store.variants[i].product = store.variants[j].product
                 /\ store.variants[i].name = store.variants[j].name)
            /\ store.variants[i].product_code # store.variants[j].product_code

\* C26 for product_code alone: no two ProductVariants share a code, also
\* when two requests pass the serializer before either is saved
C26_ProductCodeUnique ==
    \A i, j \in DOMAIN store.variants :
        store.variants[i].product_code = store.variants[j].product_code
            => i = j

----------------------------------------------------------------------------
(* Properties of the connections populate_consumers stages *)

\* row i of df names a consumer the store held before the run and is the
\* first row of an sv_number the store did not hold
ExistingConsumerNewSv(run, df, i) ==
    /\ df[i].ConsumerNumber \in run.pre.existing_consumer_nums
    /\ df[i].SvNumber \notin run.pre.existing_connection_nums
    /\ \A j \in 1..(i - 1) : df[j].SvNumber # df[i].SvNumber

\* the variants table holds a row under this id
VariantPresent(variants, id) == id \in DOMAIN variants

\* C30: a row of an existing consumer with a new sv_number stages a
\* connection linked to the consumer the store held, and no consumer,
\* address or contact; every staged connection references a consumer of the
\* store at write time; its product is the variant of the ProdCode of the
\* first row carrying its sv_number, null when that code is blank.
C30_ConnectionOfExistingConsumer ==
    (last.cmd = "populate_consumers" /\ last.run.looped) =>
      LET run == last.run
          df == last.csv
          conns == run.connections_to_create
      IN /\ \A i \in DOMAIN df :
               ExistingConsumerNewSv(run, df, i) =>
                 LET id == ConsumerId(last.before.consumers,
                                      df[i].ConsumerNumber)
                 IN /\ id # 0
                    /\ \E k \in DOMAIN conns :
                          /\ conns[k].sv_number = df[i].SvNumber
                          /\ conns[k].consumer_id = id
                    /\ \A k \in DOMAIN run.consumers_to_create :
                          run.consumers_to_create[k].consumer_number
                              # df[i].ConsumerNumber
                    /\ \A k \in DOMAIN run.addresses_to_create :
                          run.addresses_to_create[k].object_id # id
                    /\ \A k \in DOMAIN run.contacts_to_create :
                          run.contacts_to_create[k].object_id # id
         /\ \A k \in DOMAIN conns :
               /\ conns[k].consumer_id \in DOMAIN run.db.consumers
               /\ \E i \in DOMAIN df :
                     /\ df[i].SvNumber = conns[k].sv_number
                     /\ run.db.consumers[conns[k].consumer_id].consumer_number
                            = df[i].ConsumerNumber
         /\ (\E n \in DOMAIN run.log : run.log[n] = "refetch") =>
               \A k \in DOMAIN conns :
                   LET i == CHOOSE i \in DOMAIN df :
                                /\ df[i].SvNumber = conns[k].sv_number
                                /\ \A j \in 1..(i - 1) :
                                       df[j].SvNumber # conns[k].sv_number
                   IN IF df[i].ProdCode = ""
                      THEN conns[k].product = 0
                      ELSE /\ VariantPresent(run.db.variants, conns[k].product)
                           /\ run.db.variants[conns[k].product].product_code
                                  = df[i].ProdCode

\* a committed run in which a row of an existing consumer carries a new
\* sv_number and a ProdCode whose variant the same run created
C30_Witness ==
    /\ last.cmd = "populate_consumers"
    /\ last.run.ok
    /\ \E i \in DOMAIN last.csv :
          /\ ExistingConsumerNewSv(last.run, last.csv, i)
          /\ last.csv[i].ProdCode # ""
          /\ last.csv[i].ProdCode \notin last.run.pre.existing_variant_codes
          /\ \E k \in DOMAIN store.connections :
                /\ store.connections[k].sv_number = last.csv[i].SvNumber
                /\ store.connections[k].product # 0
                /\ store.connections[k].consumer_id =
                       ConsumerId(last.before.consumers,
                                  last.csv[i].ConsumerNumber)

====
